---- MODULE Spec2Model ----
(***************************************************************************)
(* A model of the detection -> graph-upsert -> semantic-search pipeline of *)
(* pannaf/tori: Neo4jClient (src/src/neo4j_client.py) and the routes of    *)
(* src/src/app.py that call it.                                            *)
(*                                                                         *)
(* The graph store is modelled by what the Cypher statements of the source *)
(* do: every session.run(...) is one auto-commit transaction, applied      *)
(* atomically or (when the store raises) not at all.  Six specifications   *)
(* share the variables:                                                    *)
(*   Spec        concurrent requests (upload_file, direct create_item      *)
(*               calls), one step per clock read and store round trip,     *)
(*               on a store that has both uniqueness constraints;          *)
(*   MergeSpec   the same requests on a store that has whichever of the    *)
(*               constraints initialize_database got created: without a    *)
(*               constraint a MERGE reads and writes in two steps;         *)
(*   SearchSpec  a catalog built by create_item calls, one step per query, *)
(*               and search_similar_items calls that run meanwhile;        *)
(*   QuerySpec   the routes search and chat over such a catalog;           *)
(*   FnSpec      ImageAnalyzer.compute_iou, apply_nms and                  *)
(*               get_object_embeddings (src/src/vision.py) and             *)
(*               Neo4jClient.cosine_similarity, each called on its own;    *)
(*   FileSpec    the routes upload_file and upload_receipt, one step per   *)
(*               stage, with the temporary files they share.               *)
(***************************************************************************)
EXTENDS Integers, Sequences, FiniteSets, TLC

VARIABLES
    driver,      \* Neo4jClient.driver is set (TRUE) or None (FALSE)
    constraints, \* the uniqueness constraints the store has: those of the
                 \* CREATE CONSTRAINT statements of initialize_database that ran
    tx,          \* per request: the nodes that the MERGE and the MATCH of its
                 \* query in flight have read, when no constraint serialises them
    now,         \* the wall clock, in seconds
    roomNodes,   \* the store's :Room nodes, in creation order
    itemNodes,   \* the store's :InventoryItem nodes, in creation order
    rels,        \* the store's :LOCATED_IN relationships, in creation order
    pc,          \* per request: where its handler stands
    kind,        \* per request: "call" (create_item) or "upload" (upload_file)
    cur,         \* per request: the item_data of the create_item call in hand
    objs,        \* per request: the objects upload_file's loop has not taken yet
    reqRoom,     \* per request: room_type and room_embedding of upload_file,
                 \* while its loop runs
    calls,       \* number of create_item calls made so far
    sumQty,      \* history: per item_id, sum of the quantities of committed upserts
    lastData,    \* history: per item_id, item_data of the last committed upsert
    seenRooms,   \* history: per item_id, rooms of its committed upserts
    firstSeen,   \* history: per (item_id, room), time of the first committed upsert
    firstEmb,    \* history: per room, embedding of the call that created the node
    raced,       \* history: requests in create_item, between its two queries,
                 \* during which another request committed an upsert of the same item_id
    search,      \* the last search_similar_items call: its inputs, the store as
                 \* its query read it, its rows and its output
    fnCall,      \* the last call of a function of the pipeline on its own:
                 \* its arguments and what it gave
    files,       \* the working directory of the app: per path, the content of the file
    job,         \* per request: an upload_file or upload_receipt run, step by step
    resp         \* the last request to the search or the chat route and its answer

vars == <<driver, constraints, tx, now, roomNodes, itemNodes, rels, pc, kind, cur, objs,
          reqRoom, calls, sumQty, lastData, seenRooms, firstSeen, firstEmb, raced,
          search, fnCall, files, job, resp>>

mergeVars == <<constraints, tx>>
storeVars == <<roomNodes, itemNodes, rels>>
reqVars == <<pc, kind, cur, objs, reqRoom>>
histVars == <<sumQty, lastData, seenRooms, firstSeen, firstEmb, raced>>
webVars == <<files, job, resp>>

-----------------------------------------------------------------------------
(* Bounds of the model *)

MaxCalls == 2
MaxTime == 1
MaxObjects == 2
MaxCatalog == 3
MaxLimit == 2
MaxDetections == 3

-----------------------------------------------------------------------------
(* Values *)

\* Python's None, Cypher's null (a property set to null is absent)
None == "None"
\* a history entry that has no value yet
NoValue == "NoValue"

Requests == {"r1", "r2"}
Rooms == {"kitchen", "bedroom"}
\* the item_id of direct create_item calls: one that upload_file builds too
ItemIds == {"chair_kitchen_0"}
Classes == {"chair", "table"}

\* embedding vectors; all have an integer Euclidean norm
E1 == <<1, 0, 0>>
E2 == <<2, 3, 6>>
E3 == <<0, 1, 0>>
ZeroVec == <<0, 0, 0>>
\* a null (None) embedding; no embedding of the model is the empty list
NoVec == <<>>

\* DEFAULT_PRICES.get(label.lower(), 10.00), in cents
DefaultPrice(label) ==
    CASE label = "chair" -> 14999
      [] label = "table" -> 29999
      [] OTHER -> 1000

\* datetime.now().strftime("%Y-%m-%d"): the day of a clock value in seconds
DateOf(t) == t \div (24 * 60 * 60)

\* datetime.now().strftime('%Y%m%d%H%M%S'): a clock value cut to whole seconds
\* (the model's clock counts whole seconds)
Timestamp(t) == t

\* item_data.get("description", "")
GetDescription(d) == IF "description" \in DOMAIN d THEN d.description ELSE ""

\* f with key k set to v
Upd(f, k, v) == [x \in DOMAIN f \cup {k} |-> IF x = k THEN v ELSE f[x]]

\* str.lower() on the class labels of the model
Lower(s) ==
    CASE s = "Chair" -> "chair"
      [] s = "Table" -> "table"
      [] OTHER -> s

-----------------------------------------------------------------------------
(* The graph store: what the Cypher of Neo4jClient.create_item does.       *)
(* A node is its position in roomNodes / itemNodes; a relationship names   *)
(* the positions of its two ends and holds the properties set on it.       *)

\* the positions of the nodes that a pattern matches
RoomMatches(rs, room) == {i \in DOMAIN rs : rs[i].name = room}
ItemMatches(its, item_id) == {i \in DOMAIN its : its[i].item_id = item_id}

\* MERGE (r:Room {name: $room}): match the nodes of that name, create one if none
MergeRoom(rs, room) ==
    IF RoomMatches(rs, room) # {} THEN rs
    ELSE Append(rs, [name |-> room, embedding |-> NoVec])

\* SET r.embedding = $room_embedding, on every node the MERGE bound
SetRoom(rs, room, room_embedding) ==
    [i \in DOMAIN rs |->
        IF rs[i].name = room THEN [rs[i] EXCEPT !.embedding = room_embedding]
        ELSE rs[i]]

\* room_query as a whole
RoomQuery(rs, room, room_embedding) ==
    SetRoom(MergeRoom(rs, room), room, room_embedding)

\* a node MERGE has just created: only the key property is set
NewItem(item_id) ==
    [item_id |-> item_id, name |-> None, sku |-> None, price |-> None,
     quantity |-> None, confidence |-> None, embedding |-> NoVec,
     description |-> None, add_date |-> None, purchase_date |-> None,
     updated_at |-> None]

\* MERGE (i:InventoryItem {item_id: $item_id})
MergeItem(its, item_id) ==
    IF ItemMatches(its, item_id) # {} THEN its
    ELSE Append(its, NewItem(item_id))

\* the value SET gives i.quantity: the $quantity parameter
NewQuantity(old, quantity) == quantity

\* a variant of SetItemProps: the name is set when the node is created only
SetItemPropsOnCreate(node, q, t) ==
    [item_id |-> node.item_id,
     name |-> IF node.name = None THEN q.name ELSE node.name,
     sku |-> q.sku, price |-> q.price,
     quantity |-> NewQuantity(node.quantity, q.quantity),
     confidence |-> q.confidence, embedding |-> q.embedding,
     description |-> q.description, add_date |-> q.add_date,
     purchase_date |-> q.purchase_date, updated_at |-> t]

\* SET i.name = $name, ..., i.updated_at = datetime(), on a bound node
SetItemProps(node, q, t) ==
    [item_id |-> node.item_id, name |-> q.name, sku |-> q.sku, price |-> q.price,
     quantity |-> NewQuantity(node.quantity, q.quantity),
     confidence |-> q.confidence, embedding |-> q.embedding,
     description |-> q.description, add_date |-> q.add_date,
     purchase_date |-> q.purchase_date, updated_at |-> t]

SetItem(its, q, t) ==
    [i \in DOMAIN its |->
        IF its[i].item_id = q.item_id THEN SetItemProps(its[i], q, t) ELSE its[i]]

\* a variant of MergeRel: the item's relationships to other rooms are deleted
MoveRel(rl, i, r) ==
    LET kept == SelectSeq(rl, LAMBDA e : e.item # i \/ e.room = r) IN
    IF \E k \in DOMAIN kept : kept[k].item = i /\ kept[k].room = r THEN kept
    ELSE Append(kept, [item |-> i, room |-> r, props |-> <<>>])

\* MERGE (i)-[rel:LOCATED_IN]->(r) for one bound pair: match or create
MergeRel(rl, i, r) ==
    IF \E k \in DOMAIN rl : rl[k].item = i /\ rl[k].room = r THEN rl
    ELSE Append(rl, [item |-> i, room |-> r, props |-> <<>>])

\* the MERGE of the relationship, once per row (i, r) that reaches it
RECURSIVE MergeRels(_, _)
MergeRels(rl, pairs) ==
    IF pairs = {} THEN rl
    ELSE LET pr == CHOOSE x \in pairs : \A y \in pairs :
                       x[1] < y[1] \/ (x[1] = y[1] /\ x[2] <= y[2])
         IN MergeRels(MergeRel(rl, pr[1], pr[2]), pairs \ {pr})

\* SET rel.last_updated = datetime(), on every relationship of the rows
SetRels(rl, pairs, t) ==
    [k \in DOMAIN rl |->
        IF <<rl[k].item, rl[k].room>> \in pairs
        THEN [rl[k] EXCEPT !.props = Upd(rl[k].props, "last_updated", t)]
        ELSE rl[k]]

\* the parameters of item_query, built from item_data
ItemParams(d) ==
    [item_id |-> d.item_id, name |-> d.name, sku |-> d.sku, price |-> d.price,
     quantity |-> d.quantity, confidence |-> d.confidence,
     embedding |-> d.embedding, description |-> GetDescription(d),
     room |-> d.room, add_date |-> d.add_date, purchase_date |-> d.purchase_date]

\* item_query as a whole: the new item nodes and relationships
ItemQuery(its, rs, rl, q, t) ==
    LET its2 == SetItem(MergeItem(its, q.item_id), q, t)
        pairs == ItemMatches(its2, q.item_id) \X RoomMatches(rs, q.room)
    IN [items |-> its2, rels |-> SetRels(MergeRels(rl, pairs), pairs, t)]

\* The two CREATE CONSTRAINT statements of initialize_database.  A MERGE on a
\* constrained key takes the key's lock, so its match-or-create is one step.
\* Without the constraint a MERGE matches on what is committed when it runs
\* and creates its node at commit: two transactions in flight can both match
\* nothing and both create.
ItemIdConstraint == "item_id"
RoomNameConstraint == "room_name"
Constraints == {ItemIdConstraint, RoomNameConstraint}

\* what a statement in flight has read: positions of item and of room nodes
NoTx == [items |-> {}, rooms |-> {}]

\* the commit of room_query whose MERGE matched the nodes `matched`:
\* the node is created if none was matched, the SET goes to the bound nodes
RoomQueryCommit(rs, matched, room, room_embedding) ==
    LET rs2 == IF matched = {} THEN Append(rs, [name |-> room, embedding |-> NoVec])
               ELSE rs
        bound == IF matched = {} THEN {Len(rs2)} ELSE matched
    IN [i \in DOMAIN rs2 |->
           IF i \in bound THEN [rs2[i] EXCEPT !.embedding = room_embedding]
           ELSE rs2[i]]

\* the commit of item_query whose MERGE matched the item nodes read.items and
\* whose MATCH found the room nodes read.rooms; the MERGE of the relationship
\* locks both of its end nodes, so it matches or creates at the commit
ItemQueryCommit(its, rl, read, q, t) ==
    LET its2 == IF read.items = {} THEN Append(its, NewItem(q.item_id)) ELSE its
        bound == IF read.items = {} THEN {Len(its2)} ELSE read.items
        its3 == [i \in DOMAIN its2 |->
                    IF i \in bound THEN SetItemProps(its2[i], q, t) ELSE its2[i]]
        pairs == bound \X read.rooms
    IN [items |-> its3, rels |-> SetRels(MergeRels(rl, pairs), pairs, t)]

-----------------------------------------------------------------------------
(* Similarity and search: Neo4jClient.cosine_similarity and                *)
(* search_similar_items.  Scores are exact fractions [num, den], den > 0,  *)
(* in lowest terms.                                                        *)

Abs(n) == IF n < 0 THEN 0 - n ELSE n

RECURSIVE Gcd(_, _)
Gcd(a, b) == IF b = 0 THEN a ELSE Gcd(b, a % b)

\* the fraction n/d (d > 0) in lowest terms
Frac(n, d) ==
    LET g == Gcd(Abs(n), d) IN [num |-> n \div g, den |-> d \div g]

\* a < b, a <= b on fractions
Less(a, b) == a.num * b.den < b.num * a.den
LessEq(a, b) == a.num * b.den <= b.num * a.den

\* np.dot(vec1, vec2)
RECURSIVE DotFrom(_, _, _)
DotFrom(v1, v2, i) ==
    IF i > Len(v1) THEN 0 ELSE v1[i] * v2[i] + DotFrom(v1, v2, i + 1)
Dot(v1, v2) == DotFrom(v1, v2, 1)

\* np.linalg.norm(vec), for the vectors of the model (their norm is an integer)
Norm(v) == LET s == Dot(v, v) IN CHOOSE n \in 0..s : n * n = s

\* cosine_similarity(vec1, vec2)
CosineSimilarity(vec1, vec2) ==
    LET dot_product == Dot(vec1, vec2)
        norm1 == Norm(vec1)
        norm2 == Norm(vec2)
    IN IF norm1 # 0 /\ norm2 # 0 THEN Frac(dot_product, norm1 * norm2)
       ELSE Frac(0, 1)

\* the weights 0.7 and 0.3 of the blend and the cut 0.2
ItemWeight == Frac(7, 10)
RoomWeight == Frac(3, 10)
Threshold == Frac(2, 10)

\* a variant of Blend: the two weights exchanged
BlendSwapped(item_similarity, room_similarity) ==
    Frac(RoomWeight.num * item_similarity.num * ItemWeight.den * room_similarity.den
           + ItemWeight.num * room_similarity.num * RoomWeight.den * item_similarity.den,
         ItemWeight.den * item_similarity.den * RoomWeight.den * room_similarity.den)

\* 0.7 * item_similarity + 0.3 * room_similarity
Blend(item_similarity, room_similarity) ==
    Frac(ItemWeight.num * item_similarity.num * RoomWeight.den * room_similarity.den
           + RoomWeight.num * room_similarity.num * ItemWeight.den * item_similarity.den,
         ItemWeight.den * item_similarity.den * RoomWeight.den * room_similarity.den)

\* Python's truth value of an embedding: None and the empty list are false
Truthy(vec) == vec # NoVec

\* the record of one row of cypher_query: an item with a non-null embedding,
\* one of its LOCATED_IN relationships and the room at its end
Row(its, rs, rel) ==
    [name |-> its[rel.item].name,
     description |-> its[rel.item].description,
     price |-> its[rel.item].price,
     quantity |-> its[rel.item].quantity,
     room |-> rs[rel.room].name,
     embedding |-> its[rel.item].embedding,
     room_embedding |-> rs[rel.room].embedding]

\* a variant of Matching: WHERE r.embedding IS NOT NULL as well
MatchingEmbeddedRooms(its, rl) ==
    {k \in DOMAIN rl : /\ its[rl[k].item].embedding # NoVec
                        /\ roomNodes[rl[k].room].embedding # NoVec}

\* the relationships whose rows cypher_query returns
Matching(its, rl) == {k \in DOMAIN rl : its[rl[k].item].embedding # NoVec}

\* the orders in which the store may return those rows
RowOrders(its, rl) ==
    LET m == Matching(its, rl) IN
    {o \in [1..Cardinality(m) -> m] : \A i, j \in DOMAIN o : o[i] = o[j] => i = j}

\* item["similarity"] of a row for a query embedding
Similarity(query_embedding, row) ==
    LET item_similarity ==
            IF Truthy(row.embedding)
            THEN CosineSimilarity(query_embedding, row.embedding) ELSE Frac(0, 1)
        room_similarity ==
            IF Truthy(row.room_embedding)
            THEN CosineSimilarity(query_embedding, row.room_embedding) ELSE Frac(0, 1)
    IN Blend(item_similarity, room_similarity)

\* the rows with their similarity, in the order the store returned them
Scored(query_embedding, rows) ==
    [i \in DOMAIN rows |->
        [name |-> rows[i].name, description |-> rows[i].description,
         price |-> rows[i].price, quantity |-> rows[i].quantity,
         room |-> rows[i].room,
         similarity |-> Similarity(query_embedding, rows[i])]]

\* items.sort(key=similarity, reverse=True): a stable sort, so rows of equal
\* similarity keep their order
InsertDesc(sorted, x) ==
    LET before == {j \in DOMAIN sorted : ~Less(sorted[j].similarity, x.similarity)}
        n == Cardinality(before)
    IN [j \in 1..(Len(sorted) + 1) |->
           IF j <= n THEN sorted[j]
           ELSE IF j = n + 1 THEN x ELSE sorted[j - 1]]

\* a variant of SortDesc: the rows are left in the order of the store
NoSort(items) == items

RECURSIVE SortDescFrom(_, _, _)
SortDescFrom(items, i, sorted) ==
    IF i > Len(items) THEN sorted
    ELSE SortDescFrom(items, i + 1, InsertDesc(sorted, items[i]))
SortDesc(items) == SortDescFrom(items, 1, <<>>)

\* items[:limit]
Take(items, limit) ==
    [i \in 1..(IF limit < Len(items) THEN limit ELSE Len(items)) |-> items[i]]

\* a variant of AboveThreshold: >= in place of >
AtOrAboveThreshold(item) == LessEq(Threshold, item.similarity)

\* item.get("similarity", 0) > 0.2
AboveThreshold(item) == Less(Threshold, item.similarity)

RECURSIVE Filter(_, _)
Filter(items, i) ==
    IF i > Len(items) THEN <<>>
    ELSE (IF AboveThreshold(items[i]) THEN <<items[i]>> ELSE <<>>)
         \o Filter(items, i + 1)

\* similar_items: sort all rows, take the first `limit`, keep those above 0.2
SimilarItems(scored, limit) == Filter(Take(SortDesc(scored), limit), 1)

-----------------------------------------------------------------------------
(* Inputs *)

\* what EmbeddingsClient.get_image_embedding returns: (embedding, description)
GetImageEmbedding(vec, description) == <<vec, description>>

\* the entries of objects_with_embeddings that get_object_embeddings builds:
\* "embedding" holds what get_image_embedding returned
Objects ==
    {[classLabel |-> c, confidence |-> IF c = "chair" THEN 90 ELSE 85,
      embedding |-> GetImageEmbedding(E1, "a " \o c), image_data |-> "png"] :
        c \in Classes}

\* objects_with_embeddings of an upload: the detections that were cropped
\* and embedded, none included
ObjectLists ==
    UNION {[1..n -> Objects] : n \in 0..MaxObjects}

\* item_data as upload_file builds it for one object: datetime.now() reads
\* t for the item_id and then t_date for the add_date
UploadItemData(obj, room_type, room_embedding, t, t_date) ==
    [name |-> obj.classLabel,
     room |-> room_type,
     price |-> DefaultPrice(Lower(obj.classLabel)),
     quantity |-> 1,
     confidence |-> obj.confidence,
     embedding |-> obj.embedding,
     description |-> IF "description" \in DOMAIN obj THEN obj.description ELSE "",
     image_data |-> obj.image_data,
     item_id |-> obj.classLabel \o "_" \o room_type \o "_" \o ToString(Timestamp(t)),
     sku |-> "SKU_" \o obj.classLabel \o "_" \o room_type,
     add_date |-> DateOf(t_date),
     purchase_date |-> None,
     room_embedding |-> room_embedding]

\* item_data of a direct create_item call; the caller of a "table" leaves
\* the optional "description" key out
CallItemData(item_id, label, quantity, room, room_embedding, t) ==
    IF label = "chair"
    THEN [name |-> label,
          room |-> room,
          price |-> DefaultPrice(label),
          quantity |-> quantity,
          confidence |-> 90,
          embedding |-> E1,
          description |-> "a " \o label,
          item_id |-> item_id,
          sku |-> "SKU_" \o label,
          add_date |-> DateOf(t),
          purchase_date |-> None,
          room_embedding |-> room_embedding]
    ELSE [name |-> label,
          room |-> room,
          price |-> DefaultPrice(label),
          quantity |-> quantity,
          confidence |-> 85,
          embedding |-> E2,
          item_id |-> item_id,
          sku |-> "SKU_" \o label,
          add_date |-> DateOf(t),
          purchase_date |-> None,
          room_embedding |-> room_embedding]

\* (name, quantity) of the direct calls of the model
Observations == {<<"chair", 1>>, <<"table", 0>>}
RoomEmbeddings == {E2, NoVec}
\* the room embedding get_image_embedding gives an uploaded image
UploadRoomEmbeddings == {E2}

-----------------------------------------------------------------------------
(* Requests *)

\* request p runs no handler: it has not started, or its last handler ended
\* normally ("done"), on an exception out of create_item ("failed"), or, for
\* upload_file, on an exception of another of its steps ("aborted")
Idle(p) == pc[p] \in {"idle", "done", "failed", "aborted"}

NoSearch ==
    [query |-> NoVec, limit |-> 0, items |-> <<>>, rooms |-> <<>>, rels |-> <<>>,
     order |-> <<>>, rows |-> <<>>, out |-> <<>>]

\* no function call in hand
NoCall == [fn |-> "none"]

\* the paths upload_file and upload_receipt save the uploaded file to
TempUpload == "temp_upload.jpg"
TempReceipt == "temp_receipt.jpg"
\* the content of a path that does not exist
NoFile == "NoFile"

\* a request that has not reached upload_file or upload_receipt
NoJob ==
    [pc |-> "idle", route |-> "none", status |-> 0,
     detections |-> <<>>, detFrom |-> NoFile,
     room |-> None, roomFrom |-> NoFile,
     room_embedding |-> NoVec, embFrom |-> NoFile,
     objects |-> <<>>, objFrom |-> NoFile,
     img |-> NoFile, todo |-> <<>>, d |-> NoValue,
     items |-> <<>>, results |-> <<>>]

\* no request to the search or the chat route in hand
NoResp == [route |-> "none"]

\* the state after neo4j_client = Neo4jClient(...) (app.py:29), every
\* variable but `constraints`
Constructed ==
    /\ driver \in BOOLEAN
    /\ tx = [p \in Requests |-> NoTx]
    /\ now = 0
    /\ roomNodes = <<>>
    /\ itemNodes = <<>>
    /\ rels = <<>>
    /\ pc = [p \in Requests |-> "idle"]
    /\ kind = [p \in Requests |-> "call"]
    /\ cur = [p \in Requests |-> NoValue]
    /\ objs = [p \in Requests |-> <<>>]
    /\ reqRoom = [p \in Requests |-> NoValue]
    /\ calls = 0
    /\ sumQty = <<>>
    /\ lastData = <<>>
    /\ seenRooms = <<>>
    /\ firstSeen = <<>>
    /\ firstEmb = <<>>
    /\ raced = {}
    /\ search = NoSearch
    /\ fnCall = NoCall
    /\ files = [path \in {TempUpload, TempReceipt} |-> NoFile]
    /\ job = [p \in Requests |-> NoJob]
    /\ resp = NoResp

\* neo4j_client.initialize_database() (app.py:30): without a driver it
\* returns at once; with one, each CREATE CONSTRAINT statement runs in a try
\* of its own, and a statement that raises is logged and passed over.
\* `created` are the statements that ran
InitializeDatabase(created) ==
    constraints = IF driver THEN created ELSE {}

\* the app has started and the store took both constraints
Init == Constructed /\ InitializeDatabase(Constraints)

\* the clock advances
Tick ==
    /\ now < MaxTime
    /\ now' = now + 1
    /\ UNCHANGED <<driver, mergeVars, storeVars, reqVars, calls, histVars, search, fnCall, webVars>>

\* a caller invokes neo4j_client.create_item(item_data)
StartCall(p) ==
    /\ Idle(p)
    /\ calls < MaxCalls
    /\ pc' = [pc EXCEPT ![p] = "room"]
    /\ kind' = [kind EXCEPT ![p] = "call"]
    /\ cur' = [cur EXCEPT ![p] = NoValue]
    /\ objs' = [objs EXCEPT ![p] = <<>>]
    /\ reqRoom' = [reqRoom EXCEPT ![p] = NoValue]
    /\ calls' = calls + 1
    /\ UNCHANGED <<driver, mergeVars, now, storeVars, histVars, search, fnCall, webVars>>

\* upload_file up to its loop: the image is analysed, the room classified and
\* embedded, the objects embedded; the loop takes its first object, or, with
\* no object, is passed over.  Requests start while fewer than MaxCalls
\* create_item calls were made
StartUpload(p) ==
    /\ Idle(p)
    /\ calls < MaxCalls
    /\ \E os \in ObjectLists, room_type \in Rooms, room_embedding \in UploadRoomEmbeddings :
          /\ calls + Len(os) <= MaxCalls
          /\ objs' = [objs EXCEPT ![p] = os]
          /\ reqRoom' = [reqRoom EXCEPT ![p] =
                            IF os = <<>> THEN NoValue
                            ELSE [room_type |-> room_type, room_embedding |-> room_embedding]]
          /\ calls' = calls + Len(os)
          /\ pc' = [pc EXCEPT ![p] = IF os = <<>> THEN "finish" ELSE "build"]
    /\ kind' = [kind EXCEPT ![p] = "upload"]
    /\ cur' = [cur EXCEPT ![p] = NoValue]
    /\ UNCHANGED <<driver, mergeVars, now, storeVars, histVars, search, fnCall, webVars>>

\* upload_file's handler answers 400 for an exception raised outside
\* create_item: no object is left to take
Abort(p) ==
    /\ pc' = [pc EXCEPT ![p] = "aborted"]
    /\ kind' = [kind EXCEPT ![p] = "upload"]
    /\ cur' = [cur EXCEPT ![p] = NoValue]
    /\ objs' = [objs EXCEPT ![p] = <<>>]
    /\ reqRoom' = [reqRoom EXCEPT ![p] = NoValue]

\* upload_file raises before its loop (Image.open, analyze_image,
\* classify_room, get_image_embedding or get_object_embeddings): create_item
\* is not called and the answer is 400
UploadFails(p) ==
    /\ Idle(p)
    /\ calls < MaxCalls
    /\ Abort(p)
    /\ UNCHANGED <<driver, mergeVars, now, storeVars, calls, histVars, search, fnCall, webVars>>

\* upload_file after its loop: get_base64_plot, get_cropped_objects and
\* os.unlink succeed and the result page is rendered
FinishUpload(p) ==
    /\ pc[p] = "finish"
    /\ pc' = [pc EXCEPT ![p] = "done"]
    /\ UNCHANGED <<driver, mergeVars, now, storeVars, kind, cur, objs, reqRoom, calls,
                   histVars, search, fnCall, webVars>>

\* upload_file after its loop: get_base64_plot, get_cropped_objects or
\* os.unlink raises; the items stay stored and the answer is 400
FinishFails(p) ==
    /\ pc[p] = "finish"
    /\ Abort(p)
    /\ UNCHANGED <<driver, mergeVars, now, storeVars, calls, histVars, search, fnCall, webVars>>

\* upload_file builds item_data for the object its loop takes: the clock is
\* read for the item_id and again for the add_date, before create_item is
\* called
BuildItemData(p) ==
    /\ pc[p] = "build"
    /\ \E t_date \in now..MaxTime :
          cur' = [cur EXCEPT ![p] =
                     UploadItemData(Head(objs[p]), reqRoom[p].room_type,
                                    reqRoom[p].room_embedding, now, t_date)]
    /\ pc' = [pc EXCEPT ![p] = "room"]
    /\ UNCHANGED <<driver, mergeVars, now, storeVars, kind, objs, reqRoom, calls, histVars,
                   search, fnCall, webVars>>

\* the item_data the create_item call of request p carries: the one
\* upload_file built before the call, or the argument of a direct call, whose
\* keys create_item reads first for its room query
ItemDataOf(p) ==
    IF kind[p] = "upload"
    THEN {cur[p]}
    ELSE {CallItemData(item_id, ob[1], ob[2], room, room_embedding, now) :
             item_id \in ItemIds, ob \in Observations, room \in Rooms,
             room_embedding \in RoomEmbeddings}

\* create_item returns normally to its caller: a direct call is over;
\* upload_file goes on to the next object of its loop, or, after the last
\* one, to the steps that follow the loop
Return(p) ==
    IF kind[p] = "upload"
    THEN /\ pc' = [pc EXCEPT ![p] = IF Len(objs[p]) > 1 THEN "build" ELSE "finish"]
         /\ objs' = [objs EXCEPT ![p] = Tail(objs[p])]
         /\ cur' = [cur EXCEPT ![p] = NoValue]
         /\ reqRoom' = [reqRoom EXCEPT ![p] =
                           IF Len(objs[p]) > 1 THEN reqRoom[p] ELSE NoValue]
    ELSE /\ pc' = [pc EXCEPT ![p] = "done"]
         /\ objs' = [objs EXCEPT ![p] = <<>>]
         /\ cur' = [cur EXCEPT ![p] = NoValue]
         /\ reqRoom' = [reqRoom EXCEPT ![p] = NoValue]

\* create_item raises: nothing in create_item catches it, a direct caller gets
\* the exception, and upload_file's only handler is the one around the whole
\* request, which answers 400: the objects after the one in hand are not taken
Raise(p) ==
    /\ pc' = [pc EXCEPT ![p] = "failed"]
    /\ objs' = [objs EXCEPT ![p] = IF kind[p] = "upload" THEN Tail(objs[p]) ELSE <<>>]
    /\ cur' = [cur EXCEPT ![p] = NoValue]
    /\ reqRoom' = [reqRoom EXCEPT ![p] = NoValue]

\* create_item without a driver: logs a warning and returns
NoDriver(p) ==
    /\ pc[p] = "room"
    /\ ~driver
    /\ Return(p)
    /\ UNCHANGED <<driver, mergeVars, now, storeVars, kind, calls, histVars, search, fnCall, webVars>>

\* session.run(room_query, ...) commits; the room_name constraint makes its
\* MERGE one step
RoomStep(p) ==
    /\ pc[p] = "room"
    /\ driver
    /\ RoomNameConstraint \in constraints
    /\ \E d \in ItemDataOf(p) :
          /\ cur' = [cur EXCEPT ![p] = d]
          /\ roomNodes' = RoomQuery(roomNodes, d.room, d.room_embedding)
          /\ firstEmb' = IF d.room \in DOMAIN firstEmb THEN firstEmb
                         ELSE Upd(firstEmb, d.room, d.room_embedding)
    /\ pc' = [pc EXCEPT ![p] = "item"]
    /\ UNCHANGED <<driver, mergeVars, now, itemNodes, rels, kind, objs, reqRoom, calls,
                   sumQty, lastData, seenRooms, firstSeen, raced, search, fnCall, webVars>>

\* session.run(room_query, ...) raises (the store is unreachable, times out)
RoomQueryFails(p) ==
    /\ pc[p] \in {"room", "room_tx"}
    /\ driver
    /\ Raise(p)
    /\ tx' = [tx EXCEPT ![p] = NoTx]
    /\ UNCHANGED <<driver, constraints, now, storeVars, kind, calls, histVars, search, fnCall, webVars>>

\* the history of the upsert d that request p commits
Committed(p, d) ==
    /\ sumQty' = Upd(sumQty, d.item_id,
                     (IF d.item_id \in DOMAIN sumQty THEN sumQty[d.item_id] ELSE 0)
                     + d.quantity)
    /\ lastData' = Upd(lastData, d.item_id, d)
    /\ seenRooms' = Upd(seenRooms, d.item_id,
                        (IF d.item_id \in DOMAIN seenRooms
                         THEN seenRooms[d.item_id] ELSE {}) \cup {d.room})
    /\ firstSeen' = IF <<d.item_id, d.room>> \in DOMAIN firstSeen THEN firstSeen
                    ELSE Upd(firstSeen, <<d.item_id, d.room>>, now)
    /\ raced' = (raced \ {p}) \cup
                 {o \in Requests \ {p} :
                     pc[o] \in {"item", "item_tx"} /\ cur[o].item_id = d.item_id}

\* session.run(item_query, ...) commits; the item_id constraint makes its
\* MERGE one step
ItemStep(p) ==
    /\ pc[p] = "item"
    /\ ItemIdConstraint \in constraints
    /\ LET d == cur[p]
           q == ItemParams(d)
           res == ItemQuery(itemNodes, roomNodes, rels, q, now)
       IN /\ itemNodes' = res.items
          /\ rels' = res.rels
          /\ Committed(p, d)
    /\ Return(p)
    /\ UNCHANGED <<driver, mergeVars, now, roomNodes, kind, calls, firstEmb, search, fnCall, webVars>>

\* session.run(item_query, ...) raises: the room query of this call stays committed
ItemQueryFails(p) ==
    /\ pc[p] \in {"item", "item_tx"}
    /\ Raise(p)
    /\ raced' = raced \ {p}
    /\ tx' = [tx EXCEPT ![p] = NoTx]
    /\ UNCHANGED <<driver, constraints, now, storeVars, kind, calls, sumQty, lastData, seenRooms,
                   firstSeen, firstEmb, search, fnCall, webVars>>

Next ==
    \/ Tick
    \/ \E p \in Requests :
          \/ StartCall(p)
          \/ StartUpload(p)
          \/ BuildItemData(p)
          \/ NoDriver(p)
          \/ RoomStep(p)
          \/ RoomQueryFails(p)
          \/ ItemStep(p)
          \/ ItemQueryFails(p)
          \/ UploadFails(p)
          \/ FinishUpload(p)
          \/ FinishFails(p)

Spec == Init /\ [][Next]_vars

-----------------------------------------------------------------------------
(* MergeSpec: the requests of Spec on a store that took any, all or none   *)
(* of the constraints.  A query on a key without its constraint is two     *)
(* steps: its reads, then its commit.                                      *)

\* the app has started; each CREATE CONSTRAINT statement ran or raised
MergeInit ==
    Constructed /\ \E created \in SUBSET Constraints : InitializeDatabase(created)

\* session.run(room_query, ...) without the room_name constraint: the MERGE
\* matches the committed Room nodes of that name
RoomMatch(p) ==
    /\ pc[p] = "room"
    /\ driver
    /\ RoomNameConstraint \notin constraints
    /\ \E d \in ItemDataOf(p) :
          /\ cur' = [cur EXCEPT ![p] = d]
          /\ tx' = [tx EXCEPT ![p] =
                       [items |-> {}, rooms |-> RoomMatches(roomNodes, d.room)]]
    /\ pc' = [pc EXCEPT ![p] = "room_tx"]
    /\ UNCHANGED <<driver, constraints, now, storeVars, kind, objs, reqRoom, calls,
                   histVars, search, fnCall, webVars>>

\* ... and commits
RoomCommit(p) ==
    /\ pc[p] = "room_tx"
    /\ LET d == cur[p] IN
          /\ roomNodes' = RoomQueryCommit(roomNodes, tx[p].rooms, d.room, d.room_embedding)
          /\ firstEmb' = IF d.room \in DOMAIN firstEmb THEN firstEmb
                         ELSE Upd(firstEmb, d.room, d.room_embedding)
    /\ tx' = [tx EXCEPT ![p] = NoTx]
    /\ pc' = [pc EXCEPT ![p] = "item"]
    /\ UNCHANGED <<driver, constraints, now, itemNodes, rels, kind, cur, objs, reqRoom,
                   calls, sumQty, lastData, seenRooms, firstSeen, raced, search, fnCall,
                   webVars>>

\* session.run(item_query, ...) without the item_id constraint: the MERGE
\* matches the committed InventoryItem nodes of that item_id, the MATCH the
\* committed Room nodes of that name
ItemMatch(p) ==
    /\ pc[p] = "item"
    /\ ItemIdConstraint \notin constraints
    /\ tx' = [tx EXCEPT ![p] =
                 [items |-> ItemMatches(itemNodes, cur[p].item_id),
                  rooms |-> RoomMatches(roomNodes, cur[p].room)]]
    /\ pc' = [pc EXCEPT ![p] = "item_tx"]
    /\ UNCHANGED <<driver, constraints, now, storeVars, kind, cur, objs, reqRoom, calls,
                   histVars, search, fnCall, webVars>>

\* ... and commits
ItemCommit(p) ==
    /\ pc[p] = "item_tx"
    /\ LET d == cur[p]
           res == ItemQueryCommit(itemNodes, rels, tx[p], ItemParams(d), now)
       IN /\ itemNodes' = res.items
          /\ rels' = res.rels
          /\ Committed(p, d)
    /\ tx' = [tx EXCEPT ![p] = NoTx]
    /\ Return(p)
    /\ UNCHANGED <<driver, constraints, now, roomNodes, kind, calls, firstEmb, search,
                   fnCall, webVars>>

MergeNext ==
    \/ Next
    \/ \E p \in Requests :
          \/ RoomMatch(p)
          \/ RoomCommit(p)
          \/ ItemMatch(p)
          \/ ItemCommit(p)

MergeSpec == MergeInit /\ [][MergeNext]_vars

-----------------------------------------------------------------------------
(* SearchSpec: a catalog built by create_item calls, and searches          *)

\* embeddings of catalog items, of rooms and of queries in SearchSpec
CatalogEmbeddings == {E1, E2, NoVec}
CatalogRoomEmbeddings == {E1, NoVec}
QueryEmbeddings == {E1, E2, ZeroVec}
\* the item_ids of the catalog; a call takes one already in the store or the
\* first one not yet there
CatalogIds == <<"i1", "i2">>
NextIds(its) ==
    {CatalogIds[k] : k \in {j \in DOMAIN CatalogIds : j <= Len(its) + 1}}

\* the rooms of the catalog, taken in the same way
CatalogRooms == <<"kitchen", "bedroom">>
NextRooms(rs) ==
    {CatalogRooms[k] : k \in {j \in DOMAIN CatalogRooms : j <= Len(rs) + 1}}

\* item_data of a create_item call that fills the catalog
CatalogItemData(item_id, embedding, room, room_embedding) ==
    [name |-> "item " \o item_id,
     room |-> room,
     price |-> DefaultPrice("chair"),
     quantity |-> 1,
     confidence |-> 90,
     embedding |-> embedding,
     description |-> "the " \o item_id,
     item_id |-> item_id,
     sku |-> "SKU_" \o item_id,
     add_date |-> DateOf(now),
     purchase_date |-> None,
     room_embedding |-> room_embedding]

\* the request whose create_item calls fill the catalog
Writer == "r1"

\* create_item(item_data) up to the commit of its room query
CreateItemRoom ==
    /\ driver
    /\ calls < MaxCatalog
    /\ pc[Writer] = "idle"
    /\ \E item_id \in NextIds(itemNodes), embedding \in CatalogEmbeddings,
          room \in NextRooms(roomNodes), room_embedding \in CatalogRoomEmbeddings :
          LET d == CatalogItemData(item_id, embedding, room, room_embedding)
          IN /\ roomNodes' = RoomQuery(roomNodes, d.room, d.room_embedding)
             /\ cur' = [cur EXCEPT ![Writer] = d]
    /\ pc' = [pc EXCEPT ![Writer] = "item"]
    /\ calls' = calls + 1
    /\ UNCHANGED <<driver, mergeVars, now, itemNodes, rels, kind, objs, reqRoom, histVars, search,
                   fnCall, webVars>>

\* the item query of the create_item call in hand commits and the call returns
CreateItemItem ==
    /\ pc[Writer] = "item"
    /\ LET res == ItemQuery(itemNodes, roomNodes, rels, ItemParams(cur[Writer]), now)
       IN /\ itemNodes' = res.items
          /\ rels' = res.rels
    /\ pc' = [pc EXCEPT ![Writer] = "idle"]
    /\ cur' = [cur EXCEPT ![Writer] = NoValue]
    /\ UNCHANGED <<driver, mergeVars, now, roomNodes, kind, objs, reqRoom, calls, histVars, search,
                   fnCall, webVars>>

\* the item query of the create_item call in hand raises: the room query
\* stays committed and the call is over
CreateItemRaises ==
    /\ pc[Writer] = "item"
    /\ pc' = [pc EXCEPT ![Writer] = "idle"]
    /\ cur' = [cur EXCEPT ![Writer] = NoValue]
    /\ UNCHANGED <<driver, mergeVars, now, storeVars, kind, objs, reqRoom, calls, histVars, search,
                   fnCall, webVars>>

\* search_similar_items(query_text, limit): the query is embedded, the rows
\* are read in one query, scored, sorted, cut and filtered; the caller holds
\* the result while create_item calls of other requests go on
Search ==
    /\ driver
    /\ search = NoSearch
    /\ \E query_embedding \in QueryEmbeddings, limit \in 1..MaxLimit,
          order \in RowOrders(itemNodes, rels) :
          LET rows == [i \in DOMAIN order |-> Row(itemNodes, roomNodes, rels[order[i]])]
              scored == Scored(query_embedding, rows)
          IN search' = [query |-> query_embedding, limit |-> limit,
                        items |-> itemNodes, rooms |-> roomNodes, rels |-> rels,
                        order |-> order,
                        rows |-> scored, out |-> SimilarItems(scored, limit)]
    /\ UNCHANGED <<driver, mergeVars, now, storeVars, reqVars, calls, histVars, fnCall, webVars>>

\* the route answers with the result of the search
SearchReturn ==
    /\ search # NoSearch
    /\ search' = NoSearch
    /\ UNCHANGED <<driver, mergeVars, now, storeVars, reqVars, calls, histVars, fnCall, webVars>>

SearchNext ==
    CreateItemRoom \/ CreateItemItem \/ CreateItemRaises \/ Search \/ SearchReturn

SearchSpec == Init /\ [][SearchNext]_vars

-----------------------------------------------------------------------------
(* QuerySpec: the routes search and chat of src/src/app.py over a catalog  *)
(* built by create_item calls.  A route reads the store in one query; its  *)
(* answer is in hand, and create_item calls go on, until it is sent.       *)

\* d.get(k, default)
Get(d, k, default) == IF k \in DOMAIN d THEN d[k] ELSE default

\* request.json: a body without a "query" key, an empty query, two queries
Bodies == {[other |-> "x"], [query |-> ""], [query |-> "chair"], [query |-> "sofa"]}

\* get_text_embedding(text) for the queries of the model
TextEmbedding(text) == IF text = "chair" THEN E1 ELSE E2

\* limit=5: the default of search_similar_items and the argument of chat
DefaultLimit == 5

\* search_similar_items(query_text, limit) on the store, the store
\* returning its rows in the order `order`
SearchSimilarItems(query_text, limit, order) ==
    SimilarItems(
        Scored(TextEmbedding(query_text),
               [i \in DOMAIN order |-> Row(itemNodes, roomNodes, rels[order[i]])]),
        limit)

\* a variant of AddToRooms: a new room goes to the front
AddToRoomsInFront(rooms, item) ==
    IF \E k \in DOMAIN rooms : rooms[k].room = item.room
    THEN [k \in DOMAIN rooms |->
             IF rooms[k].room = item.room
             THEN [rooms[k] EXCEPT !.items = Append(@, item)] ELSE rooms[k]]
    ELSE <<[room |-> item.room, items |-> <<item>>]>> \o rooms

\* one turn of the grouping loop of chat: rooms is the dict of the code as
\* the sequence of its entries in insertion order
AddToRooms(rooms, item) ==
    IF \E k \in DOMAIN rooms : rooms[k].room = item.room
    THEN [k \in DOMAIN rooms |->
             IF rooms[k].room = item.room
             THEN [rooms[k] EXCEPT !.items = Append(@, item)] ELSE rooms[k]]
    ELSE Append(rooms, [room |-> item.room, items |-> <<item>>])

RECURSIVE GroupByRoomFrom(_, _, _)
GroupByRoomFrom(similar_items, k, rooms) ==
    IF k > Len(similar_items) THEN rooms
    ELSE GroupByRoomFrom(similar_items, k + 1, AddToRooms(rooms, similar_items[k]))

\* rooms after the loop `for item in similar_items`
GroupByRoom(similar_items) == GroupByRoomFrom(similar_items, 1, <<>>)

\* a piece of the context text: what was put into one formatted string
Line(piece, room, item) ==
    [kind |-> piece, room |-> room, name |-> item.name, quantity |-> item.quantity,
     priced |-> item.price # 0, price |-> item.price,
     description |-> item.description]

NoItem == [name |-> "", quantity |-> 0, price |-> 0, description |-> ""]

\* the text added for one item: its line and, when the description is not
\* empty, a description line
ItemLines(room, item) ==
    <<Line("item", room, item)>>
    \o (IF item.description # "" THEN <<Line("description", room, item)>> ELSE <<>>)

RECURSIVE RoomItemLines(_, _, _)
RoomItemLines(room, items, k) ==
    IF k > Len(items) THEN <<>>
    ELSE ItemLines(room, items[k]) \o RoomItemLines(room, items, k + 1)

RECURSIVE RoomLines(_, _)
RoomLines(rooms, k) ==
    IF k > Len(rooms) THEN <<>>
    ELSE <<Line("room", rooms[k].room, NoItem)>>
         \o RoomItemLines(rooms[k].room, rooms[k].items, 1)
         \o <<Line("end", rooms[k].room, NoItem)>>
         \o RoomLines(rooms, k + 1)

\* context: the heading and then the text of each room of the dict
Context(rooms) == <<Line("intro", "", NoItem)>> \o RoomLines(rooms, 1)

\* the answer of a route that made no call
Rejected(route, body, status) ==
    [route |-> route, body |-> body, status |-> status,
     embedCalls |-> 0, storeCalls |-> 0, chatCalls |-> 0,
     items |-> <<>>, rooms |-> <<>>, context |-> <<>>]

\* the answer of a route whose search_similar_items call raised: the
\* embedding provider on an empty text, or self.driver.session() without a
\* driver
SearchRaised(route, body) ==
    [Rejected(route, body, 500) EXCEPT !.embedCalls = 1]

\* search(): POST /search
SearchRoute ==
    /\ resp.route = "none"
    /\ search = NoSearch
    /\ \E body \in Bodies, order \in RowOrders(itemNodes, rels) :
          resp' =
            IF Get(body, "query", None) \in {None, ""}
            THEN Rejected("search", body, 400)
            ELSE IF ~driver THEN SearchRaised("search", body)
            ELSE [Rejected("search", body, 200) EXCEPT
                     !.embedCalls = 1, !.storeCalls = 1,
                     !.items = SearchSimilarItems(body.query, DefaultLimit, order)]
    /\ UNCHANGED <<driver, mergeVars, now, storeVars, reqVars, calls, histVars, search, fnCall,
                   files, job>>

\* chat(): POST /chat; the chat service answers a text, answers nothing or raises
ChatRoute ==
    /\ resp.route = "none"
    /\ search = NoSearch
    /\ \E body \in Bodies, order \in RowOrders(itemNodes, rels),
          response \in {"text", "", "raises"} :
          resp' =
            IF "query" \notin DOMAIN body THEN Rejected("chat", body, 400)
            ELSE IF body.query = "" \/ ~driver THEN SearchRaised("chat", body)
            ELSE LET similar_items == SearchSimilarItems(body.query, DefaultLimit, order)
                     rooms == GroupByRoom(similar_items)
                 IN [route |-> "chat", body |-> body,
                     status |-> IF response = "text" THEN 200 ELSE 500,
                     embedCalls |-> 1, storeCalls |-> 1, chatCalls |-> 1,
                     items |-> similar_items, rooms |-> rooms,
                     context |-> Context(rooms)]
    /\ UNCHANGED <<driver, mergeVars, now, storeVars, reqVars, calls, histVars, search, fnCall,
                   files, job>>

\* the answer has been sent
RouteReturn ==
    /\ resp.route # "none"
    /\ resp' = NoResp
    /\ UNCHANGED <<driver, mergeVars, now, storeVars, reqVars, calls, histVars, search, fnCall,
                   files, job>>

QueryNext ==
    \/ CreateItemRoom \/ CreateItemItem \/ CreateItemRaises
    \/ SearchRoute \/ ChatRoute \/ RouteReturn

QuerySpec == Init /\ [][QueryNext]_vars

-----------------------------------------------------------------------------
(* ImageAnalyzer.compute_iou and ImageAnalyzer.apply_nms (src/src/vision.py). *)
(* Coordinates are whole pixels, confidences whole percents, and an IoU is *)
(* an exact fraction.  apply_nms works on the positions of the detections  *)
(* in its input list, so that two equal detections stay two detections.    *)

Max(a, b) == IF a >= b THEN a ELSE b
Min(a, b) == IF a <= b THEN a ELSE b

\* compute_iou(box1, box2) on boxes of whole pixels: every sum, difference
\* and product is a whole number that a float holds exactly, and the quotient
\* is the float nearest to the fraction given here
ComputeIou(box1, box2) ==
    LET x1 == Max(box1.x, box2.x)
        y1 == Max(box1.y, box2.y)
        x2 == Min(box1.x + box1.width, box2.x + box2.width)
        y2 == Min(box1.y + box1.height, box2.y + box2.height)
        intersection == Max(0, x2 - x1) * Max(0, y2 - y1)
        box1_area == box1.width * box1.height
        box2_area == box2.width * box2.height
        union == box1_area + box2_area - intersection
    IN IF union > 0 THEN Frac(intersection, union) ELSE Frac(0, 1)

-----------------------------------------------------------------------------
(* Python floats, for compute_iou on boxes whose coordinates are not whole *)
(* numbers: IEEE 754 binary64, every operation rounded to the nearest      *)
(* float, ties to even.  A float is [neg, man, exp] and stands for         *)
(* (-1)^neg * man * 2^exp, where man is a natural number of exactly 53     *)
(* bits, or 0 (with exp 0).  A natural number of any size is the sequence  *)
(* of its digits in base 2^15, lowest first, the highest not 0; 0 is <<>>. *)
(* The floats of the model stay far from the largest and the smallest      *)
(* exponent of the format.                                                 *)

\* the base of the digits (the product of two digits fits a 32-bit integer)
\* and the number of bits of a digit
LimbBase == 2 ^ 15
LimbBits == CHOOSE k \in 1..30 : 2 ^ k = LimbBase

Limb(a, i) == IF i <= Len(a) THEN a[i] ELSE 0

\* a without zeros at its high end
NatTrim(a) ==
    LET set == {i \in DOMAIN a : a[i] # 0} IN
    IF set = {} THEN <<>>
    ELSE SubSeq(a, 1, CHOOSE i \in set : \A j \in set : j <= i)

\* a + b
RECURSIVE NatAddFrom(_, _, _, _)
NatAddFrom(a, b, i, carry) ==
    IF i > Len(a) /\ i > Len(b) THEN (IF carry = 0 THEN <<>> ELSE <<carry>>)
    ELSE LET sum == Limb(a, i) + Limb(b, i) + carry
         IN <<sum % LimbBase>> \o NatAddFrom(a, b, i + 1, sum \div LimbBase)
NatAdd(a, b) == NatAddFrom(a, b, 1, 0)

\* a - b, for a >= b
RECURSIVE NatSubFrom(_, _, _, _)
NatSubFrom(a, b, i, borrow) ==
    IF i > Len(a) THEN <<>>
    ELSE LET take == Limb(b, i) + borrow
         IN <<(a[i] + LimbBase - take) % LimbBase>>
            \o NatSubFrom(a, b, i + 1, IF a[i] < take THEN 1 ELSE 0)
NatSub(a, b) == NatTrim(NatSubFrom(a, b, 1, 0))

\* a < b
NatLess(a, b) ==
    \/ Len(a) < Len(b)
    \/ /\ Len(a) = Len(b)
       /\ \E i \in DOMAIN a :
             a[i] < b[i] /\ \A j \in (i + 1)..Len(a) : a[j] = b[j]

\* a * m, for 0 <= m < LimbBase
RECURSIVE NatTimesFrom(_, _, _, _)
NatTimesFrom(a, m, i, carry) ==
    IF i > Len(a) THEN (IF carry = 0 THEN <<>> ELSE <<carry>>)
    ELSE LET prod == a[i] * m + carry
         IN <<prod % LimbBase>> \o NatTimesFrom(a, m, i + 1, prod \div LimbBase)
NatTimes(a, m) == IF m = 0 THEN <<>> ELSE NatTimesFrom(a, m, 1, 0)

\* a * LimbBase^k
NatUp(a, k) == IF a = <<>> THEN a ELSE [i \in 1..k |-> 0] \o a

\* a * b
RECURSIVE NatMulFrom(_, _, _)
NatMulFrom(a, b, i) ==
    IF i > Len(b) THEN <<>>
    ELSE NatAdd(NatUp(NatTimes(a, b[i]), i - 1), NatMulFrom(a, b, i + 1))
NatMul(a, b) == NatMulFrom(a, b, 1)

\* a divided by m, rounded down, for 0 < m < LimbBase: from the highest digit
RECURSIVE NatOverFrom(_, _, _, _)
NatOverFrom(a, m, i, rem) ==
    IF i = 0 THEN <<>>
    ELSE LET part == rem * LimbBase + a[i]
         IN NatOverFrom(a, m, i - 1, part % m) \o <<part \div m>>
NatOver(a, m) == NatTrim(NatOverFrom(a, m, Len(a), 0))

\* a * 2^k, and a divided by 2^k, rounded down
NatShl(a, k) == NatUp(NatTimes(a, 2 ^ (k % LimbBits)), k \div LimbBits)
NatShr(a, k) ==
    IF k \div LimbBits >= Len(a) THEN <<>>
    ELSE NatOver(SubSeq(a, k \div LimbBits + 1, Len(a)), 2 ^ (k % LimbBits))

\* the number of bits of a
BitLength(a) ==
    IF a = <<>> THEN 0
    ELSE LimbBits * (Len(a) - 1)
         + (CHOOSE k \in 1..LimbBits : 2 ^ (k - 1) <= a[Len(a)] /\ a[Len(a)] < 2 ^ k)

\* the largest t in lo..hi with d * t <= r, given d * lo <= r
RECURSIVE QuotDigit(_, _, _, _)
QuotDigit(r, d, lo, hi) ==
    IF lo = hi THEN lo
    ELSE LET mid == (lo + hi + 1) \div 2
         IN IF NatLess(r, NatTimes(d, mid)) THEN QuotDigit(r, d, lo, mid - 1)
            ELSE QuotDigit(r, d, mid, hi)

\* n divided by d > 0, rounded down, and whether nothing remains: long
\* division from the highest digit of n; r is the remainder and q the
\* quotient so far
RECURSIVE NatDivFrom(_, _, _, _, _)
NatDivFrom(n, d, i, r, q) ==
    IF i = 0 THEN [quot |-> NatTrim(q), exact |-> r = <<>>]
    ELSE LET r2 == NatTrim(<<n[i]>> \o r)
             t == QuotDigit(r2, d, 0, LimbBase - 1)
         IN IF t = 0 THEN NatDivFrom(n, d, i - 1, r2, <<0>> \o q)
            ELSE NatDivFrom(n, d, i - 1, NatSub(r2, NatTimes(d, t)), <<t>> \o q)
NatDiv(n, d) == NatDivFrom(n, d, Len(n), <<>>, <<>>)

Float(neg, man, exp) == [neg |-> neg, man |-> man, exp |-> exp]
FloatZero == Float(FALSE, <<>>, 0)

\* the float 0x1.<frac>p<e>, as float.hex() writes it: frac is the 13
\* hexadecimal digits after the point; the leading 1 and every digit
\* taken make acc, until it has the 53 bits
RECURSIVE HexNat(_, _, _)
HexNat(frac, i, acc) ==
    IF BitLength(acc) = 53 THEN acc
    ELSE HexNat(frac, i + 1,
                NatAdd(NatTimes(acc, 16), IF frac[i] = 0 THEN <<>> ELSE <<frac[i]>>))
Hex(frac, e) == Float(FALSE, HexNat(frac, 1, <<1>>), e - 52)

FloatOne == Hex(<<0, 0, 0, 0, 0, 0, 0, 0, 0, 0, 0, 0, 0>>, 0)

\* the float nearest to (-1)^neg * n * 2^e; a tie goes to the even one
Round(neg, n, e) ==
    LET len == BitLength(n) IN
    IF len = 0 THEN FloatZero
    ELSE IF len <= 53 THEN Float(neg, NatShl(n, 53 - len), e - (53 - len))
    ELSE LET k == len - 53
             kept == NatShr(n, k)
             rest == NatSub(n, NatShl(kept, k))
             half == NatShl(<<1>>, k - 1)
             up == NatLess(half, rest) \/ (rest = half /\ kept[1] % 2 = 1)
             m == IF up THEN NatAdd(kept, <<1>>) ELSE kept
         IN IF BitLength(m) = 54 THEN Float(neg, NatShr(m, 1), e + k + 1)
            ELSE Float(neg, m, e + k)

\* the magnitudes of a and b as multiples of one power of 2
Aligned(a, b) ==
    LET e == Min(a.exp, b.exp)
    IN [a |-> NatShl(a.man, a.exp - e), b |-> NatShl(b.man, b.exp - e), exp |-> e]

\* a < b
FloatLess(a, b) ==
    LET al == Aligned(a, b) IN
    CASE a.neg /\ ~b.neg -> TRUE
      [] ~a.neg /\ b.neg -> FALSE
      [] ~a.neg /\ ~b.neg -> NatLess(al.a, al.b)
      [] OTHER -> NatLess(al.b, al.a)

\* max(a, b), min(a, b)
FloatMax(a, b) == IF FloatLess(a, b) THEN b ELSE a
FloatMin(a, b) == IF FloatLess(b, a) THEN b ELSE a

\* a + b, a - b, a * b and a / b for a >= 0 and b >= 0 (b > 0 for a / b);
\* the quotient is taken to 57 or 58 bits, the last one telling whether the
\* division left a remainder, and then rounded
FloatAdd(a, b) ==
    IF a.man = <<>> THEN b
    ELSE IF b.man = <<>> THEN a
    ELSE LET al == Aligned(a, b) IN Round(FALSE, NatAdd(al.a, al.b), al.exp)
FloatSub(a, b) ==
    IF b.man = <<>> THEN a
    ELSE IF a.man = <<>> THEN Float(TRUE, b.man, b.exp)
    ELSE LET al == Aligned(a, b) IN
         IF NatLess(al.a, al.b) THEN Round(TRUE, NatSub(al.b, al.a), al.exp)
         ELSE Round(FALSE, NatSub(al.a, al.b), al.exp)
FloatMul(a, b) ==
    IF a.man = <<>> \/ b.man = <<>> THEN FloatZero
    ELSE Round(FALSE, NatMul(a.man, b.man), a.exp + b.exp)
FloatDiv(a, b) ==
    IF a.man = <<>> THEN FloatZero
    ELSE LET d == NatDiv(NatShl(a.man, 56), b.man)
         IN Round(FALSE,
                  NatAdd(NatTimes(d.quot, 2), IF d.exact THEN <<>> ELSE <<1>>),
                  a.exp - b.exp - 57)

\* compute_iou(box1, box2) on boxes of float coordinates
ComputeIouFloat(box1, box2) ==
    LET x1 == FloatMax(box1.x, box2.x)
        y1 == FloatMax(box1.y, box2.y)
        x2 == FloatMin(FloatAdd(box1.x, box1.width), FloatAdd(box2.x, box2.width))
        y2 == FloatMin(FloatAdd(box1.y, box1.height), FloatAdd(box2.y, box2.height))
        intersection == FloatMul(FloatMax(FloatZero, FloatSub(x2, x1)),
                                 FloatMax(FloatZero, FloatSub(y2, y1)))
        box1_area == FloatMul(box1.width, box1.height)
        box2_area == FloatMul(box2.width, box2.height)
        union == FloatSub(FloatAdd(box1_area, box2_area), intersection)
    IN IF FloatLess(FloatZero, union) THEN FloatDiv(intersection, union)
       ELSE FloatZero

\* a variant of NmsInsert: a detection goes before those of equal confidence
NmsInsertBeforeTies(objects, sorted, i) ==
    LET before == {j \in DOMAIN sorted :
                      objects[sorted[j]].confidence > objects[i].confidence}
        n == Cardinality(before)
    IN [j \in 1..(Len(sorted) + 1) |->
           IF j <= n THEN sorted[j]
           ELSE IF j = n + 1 THEN i ELSE sorted[j - 1]]

\* one step of sorted(objects, key=confidence, reverse=True): the sort is
\* stable, so detection i goes after those of equal or higher confidence
NmsInsert(objects, sorted, i) ==
    LET before == {j \in DOMAIN sorted :
                      objects[sorted[j]].confidence >= objects[i].confidence}
        n == Cardinality(before)
    IN [j \in 1..(Len(sorted) + 1) |->
           IF j <= n THEN sorted[j]
           ELSE IF j = n + 1 THEN i ELSE sorted[j - 1]]

RECURSIVE NmsSortFrom(_, _, _)
NmsSortFrom(objects, i, sorted) ==
    IF i > Len(objects) THEN sorted
    ELSE NmsSortFrom(objects, i + 1, NmsInsert(objects, sorted, i))

\* sorted_objects: the positions of objects by confidence, highest first
NmsSort(objects) == NmsSortFrom(objects, 1, <<>>)

\* a variant of NmsKeeps: <= in place of <
NmsKeepsAtThreshold(objects, current, obj, iou_threshold) ==
    \/ objects[obj].classLabel # objects[current].classLabel
    \/ LessEq(ComputeIou(objects[current], objects[obj]), iou_threshold)

\* a variant of NmsKeeps: any overlap with current removes obj
NmsKeepsDisjointOnly(objects, current, obj, iou_threshold) ==
    \/ objects[obj].classLabel # objects[current].classLabel
    \/ ComputeIou(objects[current], objects[obj]).num = 0

\* a variant of NmsKeeps: the class labels are not compared
NmsKeepsAnyClass(objects, current, obj, iou_threshold) ==
    Less(ComputeIou(objects[current], objects[obj]), iou_threshold)

\* the condition of the list comprehension: obj stays in sorted_objects
NmsKeeps(objects, current, obj, iou_threshold) ==
    \/ objects[obj].classLabel # objects[current].classLabel
    \/ Less(ComputeIou(objects[current], objects[obj]), iou_threshold)

\* a variant of NmsAppend: current is appended twice
NmsAppendTwice(kept_objects, current) == Append(Append(kept_objects, current), current)

\* kept_objects.append(current)
NmsAppend(kept_objects, current) == Append(kept_objects, current)

\* the while loop of apply_nms
RECURSIVE NmsLoop(_, _, _, _)
NmsLoop(objects, sorted_objects, kept_objects, iou_threshold) ==
    IF sorted_objects = <<>> THEN kept_objects
    ELSE LET current == Head(sorted_objects)
         IN NmsLoop(objects,
                    SelectSeq(Tail(sorted_objects),
                              LAMBDA obj : NmsKeeps(objects, current, obj, iou_threshold)),
                    NmsAppend(kept_objects, current),
                    iou_threshold)

\* apply_nms(objects, iou_threshold): the positions of the kept detections,
\* in the order they were kept
ApplyNms(objects, iou_threshold) ==
    NmsLoop(objects, NmsSort(objects), <<>>, iou_threshold)

\* np.dot(vec1, vec2) raises a TypeError when an argument is None
NpDotRaises(vec1, vec2) == vec1 = NoVec \/ vec2 = NoVec

-----------------------------------------------------------------------------
(* FnSpec: compute_iou, apply_nms and cosine_similarity called on their    *)
(* own, on arguments drawn from the sets below.                            *)

Box(x, y, width, height) == [x |-> x, y |-> y, width |-> width, height |-> height]

\* boxes on one row that overlap by 3/5, 1/3, 4/5 and 1/2, ...
DetectionBoxes ==
    {Box(0, 0, 4, 1), Box(1, 0, 4, 1), Box(2, 0, 4, 1), Box(0, 0, 5, 1)}

\* ... a narrow one, boxes of no area, one a row below, a tall one, a far one:
\* the boxes of whole pixels that compute_iou is called on
Boxes ==
    DetectionBoxes \cup
    {Box(0, 0, 2, 1), Box(0, 0, 0, 1), Box(3, 0, 0, 0), Box(0, 1, 4, 1),
     Box(0, 0, 4, 2), Box(6, 0, 2, 1)}

\* the floats 0.1, 0.2, 0.25, 0.5 and 0.7
F0_1 == Hex(<<9, 9, 9, 9, 9, 9, 9, 9, 9, 9, 9, 9, 10>>, -4)
F0_2 == Hex(<<9, 9, 9, 9, 9, 9, 9, 9, 9, 9, 9, 9, 10>>, -3)
F0_25 == Hex(<<0, 0, 0, 0, 0, 0, 0, 0, 0, 0, 0, 0, 0>>, -2)
F0_5 == Hex(<<0, 0, 0, 0, 0, 0, 0, 0, 0, 0, 0, 0, 0>>, -1)
F0_7 == Hex(<<6, 6, 6, 6, 6, 6, 6, 6, 6, 6, 6, 6, 6>>, -1)

\* the boxes of float coordinates that compute_iou is called on, as
\* (x, y, width, height): (0.1, 0, 0.2, 1), (0.5, 0, 0.25, 1) to its right,
\* (0.7, 0, 0.1, 1) that overlaps the second, and (0.1, 0, 0, 1) of no area
FloatBoxes ==
    {Box(F0_1, FloatZero, F0_2, FloatOne), Box(F0_5, FloatZero, F0_25, FloatOne),
     Box(F0_7, FloatZero, F0_1, FloatOne), Box(F0_1, FloatZero, FloatZero, FloatOne)}

Confidences == {90, 60}

\* the entries of result["objects"] that EyePop's predict() gives
Detections ==
    {[classLabel |-> c, confidence |-> conf,
      x |-> b.x, y |-> b.y, width |-> b.width, height |-> b.height] :
        c \in Classes, conf \in Confidences, b \in DetectionBoxes}

DetectionLists == UNION {[1..n -> Detections] : n \in 0..MaxDetections}

\* iou_threshold: the default 0.5, and 0.8
IouThresholds == {Frac(1, 2), Frac(4, 5)}

\* the arguments of cosine_similarity
Vectors == {E1, E2, E3, ZeroVec, NoVec}

\* compute_iou(box1, box2) on boxes of whole pixels
IouCall ==
    /\ fnCall.fn = "none"
    /\ \E box1, box2 \in Boxes :
          fnCall' = [fn |-> "compute_iou", coords |-> "pixel",
                     box1 |-> box1, box2 |-> box2,
                     result |-> ComputeIou(box1, box2)]
    /\ UNCHANGED <<driver, mergeVars, now, storeVars, reqVars, calls, histVars, search, webVars>>

\* compute_iou(box1, box2) on boxes of float coordinates
IouFloatCall ==
    /\ fnCall.fn = "none"
    /\ \E box1, box2 \in FloatBoxes :
          fnCall' = [fn |-> "compute_iou", coords |-> "float",
                     box1 |-> box1, box2 |-> box2,
                     result |-> ComputeIouFloat(box1, box2)]
    /\ UNCHANGED <<driver, mergeVars, now, storeVars, reqVars, calls, histVars, search, webVars>>

\* apply_nms(objects, iou_threshold)
NmsCall ==
    /\ fnCall.fn = "none"
    /\ \E objects \in DetectionLists, iou_threshold \in IouThresholds :
          LET kept == ApplyNms(objects, iou_threshold)
          IN fnCall' = [fn |-> "apply_nms", objects |-> objects,
                        iou_threshold |-> iou_threshold, kept |-> kept,
                        result |-> [k \in DOMAIN kept |-> objects[kept[k]]]]
    /\ UNCHANGED <<driver, mergeVars, now, storeVars, reqVars, calls, histVars, search, webVars>>

\* cosine_similarity(vec1, vec2): it returns a number or np.dot raises
CosineCall ==
    /\ fnCall.fn = "none"
    /\ \E vec1, vec2 \in Vectors :
          fnCall' = IF NpDotRaises(vec1, vec2)
                    THEN [fn |-> "cosine_similarity", vec1 |-> vec1, vec2 |-> vec2,
                          raised |-> TRUE]
                    ELSE [fn |-> "cosine_similarity", vec1 |-> vec1, vec2 |-> vec2,
                          raised |-> FALSE,
                          result |-> CosineSimilarity(vec1, vec2)]
    /\ UNCHANGED <<driver, mergeVars, now, storeVars, reqVars, calls, histVars, search, webVars>>

\* the photo and the receipt a request uploads
UploadedImage(p) == IF p = "r1" THEN "photo1" ELSE "photo2"
UploadedReceipt(p) == IF p = "r1" THEN "receipt1" ELSE "receipt2"

\* what the services find in a photo: result["objects"] of EyePop's
\* predict(), the room type the classifier names and the embedding the
\* provider gives the whole image
Shows(image) ==
    IF image = "photo1"
    THEN [objects |-> <<[classLabel |-> "chair", confidence |-> 90,
                         x |-> 0, y |-> 0, width |-> 4, height |-> 1]>>,
          room |-> "kitchen", embedding |-> E1]
    ELSE [objects |-> <<[classLabel |-> "table", confidence |-> 80,
                         x |-> 2, y |-> 0, width |-> 4, height |-> 1],
                        [classLabel |-> "table", confidence |-> 85,
                         x |-> 0, y |-> 0, width |-> 4, height |-> 1]>>,
          room |-> "bedroom", embedding |-> E2]

\* the size of the images of the model
ImageSize == [width |-> 6, height |-> 2]

\* prediction_result["objects"] of the get_object_embeddings calls
CropDetections == {o \in Detections : o.x \in {0, 2}}
CropDetectionLists == UNION {[1..n -> CropDetections] : n \in 0..MaxObjects}

\* get_image_embedding(image_data=...) for the bytes of a crop: the
\* provider's answer is a function of the bytes, here of the image the crop
\* was cut from and of its place
EmbedCrop(image_data) ==
    GetImageEmbedding(Shows(image_data[1]).embedding,
                      "a view of " \o image_data[1] \o " from " \o ToString(image_data[2]))

\* get_cropped_objects(image_path, prediction_result) from position k on,
\* the file holding `image`: the crop of the box of each object, clipped to
\* the image; an object whose crop or save raises (the positions of
\* crop_raises) is skipped
RECURSIVE CroppedObjectsFrom(_, _, _, _)
CroppedObjectsFrom(objects, image, crop_raises, k) ==
    IF k > Len(objects) THEN <<>>
    ELSE LET obj == objects[k]
             left == Max(0, obj.x)
             top == Max(0, obj.y)
             right == Min(ImageSize.width, obj.x + obj.width)
             bottom == Min(ImageSize.height, obj.y + obj.height)
         IN (IF k \in crop_raises THEN <<>>
             ELSE <<[label |-> obj.classLabel, confidence |-> obj.confidence,
                     image |-> <<image, left, top, right, bottom>>]>>)
            \o CroppedObjectsFrom(objects, image, crop_raises, k + 1)

GetCroppedObjects(objects, image, crop_raises) ==
    CroppedObjectsFrom(objects, image, crop_raises, 1)

\* the loop of get_object_embeddings over
\* zip(prediction_result["objects"], cropped_objects) from pair k on; a pair
\* for which get_image_embedding raises (the pairs of embed_raises) is
\* skipped
RECURSIVE ObjectsWithEmbeddingsFrom(_, _, _, _)
ObjectsWithEmbeddingsFrom(objects, cropped_objects, embed_raises, k) ==
    IF k > Min(Len(objects), Len(cropped_objects)) THEN <<>>
    ELSE LET obj == objects[k]
             cropped == cropped_objects[k]
         IN (IF k \in embed_raises THEN <<>>
             ELSE <<[classLabel |-> obj.classLabel,
                     confidence |-> obj.confidence,
                     embedding |-> EmbedCrop(cropped.image),
                     image_data |-> cropped.image]>>)
            \o ObjectsWithEmbeddingsFrom(objects, cropped_objects, embed_raises, k + 1)

\* get_object_embeddings(image_path, prediction_result), the file holding
\* `image`
GetObjectEmbeddings(objects, image, crop_raises, embed_raises) ==
    ObjectsWithEmbeddingsFrom(objects, GetCroppedObjects(objects, image, crop_raises),
                              embed_raises, 1)

\* the failures a get_object_embeddings call on n objects may meet: the
\* positions whose crop raises and, of the pairs left, those whose
\* embedding request raises
EmbeddingFailures(n) ==
    {f \in [crop_raises : SUBSET (1..n), embed_raises : SUBSET (1..n)] :
        f.embed_raises \subseteq 1..(n - Cardinality(f.crop_raises))}

\* get_object_embeddings called on an image and its detections
EmbeddingsCall ==
    /\ fnCall.fn = "none"
    /\ \E objects \in CropDetectionLists :
       \E f \in EmbeddingFailures(Len(objects)) :
          fnCall' = [fn |-> "get_object_embeddings", objects |-> objects,
                     image |-> "photo1",
                     crop_raises |-> f.crop_raises, embed_raises |-> f.embed_raises,
                     cropped_objects |->
                         GetCroppedObjects(objects, "photo1", f.crop_raises),
                     result |-> GetObjectEmbeddings(objects, "photo1", f.crop_raises,
                                                    f.embed_raises)]
    /\ UNCHANGED <<driver, mergeVars, now, storeVars, reqVars, calls, histVars, search, webVars>>

\* the call returns (or its exception leaves it)
FnReturn ==
    /\ fnCall.fn # "none"
    /\ fnCall' = NoCall
    /\ UNCHANGED <<driver, mergeVars, now, storeVars, reqVars, calls, histVars, search, webVars>>

FnNext ==
    IouCall \/ IouFloatCall \/ NmsCall \/ CosineCall \/ EmbeddingsCall \/ FnReturn

FnSpec == Init /\ [][FnNext]_vars

-----------------------------------------------------------------------------
(* FileSpec: the routes upload_file and upload_receipt of src/src/app.py,  *)
(* one step per access to the temporary file, per store query and per      *)
(* service call, for concurrent requests.  A file's content is the name of *)
(* the image that was saved to it.                                         *)

\* iou_threshold=0.5, the default of apply_nms
DefaultIouThreshold == Frac(1, 2)

\* analyze_image on a file that holds `image`: predict() and then apply_nms
AnalyzeImage(image) ==
    LET objects == Shows(image).objects
        kept == ApplyNms(objects, DefaultIouThreshold)
    IN [k \in DOMAIN kept |-> objects[kept[k]]]

\* receipt_data["items"] that extract_receipt_data finds in a receipt
LineItems(receipt) ==
    IF receipt = "receipt1"
    THEN <<[name |-> "lamp", price |-> "$10.00", quantity |-> 2]>>
    ELSE <<[name |-> "rug", price |-> "$20.00", quantity |-> 1],
           [name |-> "lamp", price |-> "$10.00", quantity |-> 3]>>

\* float(price_val.replace("$", "").strip()) in cents, for the price
\* strings of the receipts of the model
ParsePrice(price_val) ==
    CASE price_val = "$10.00" -> 1000
      [] price_val = "10.00" -> 1000
      [] price_val = "$20.00" -> 2000

\* DEFAULT_PRICES of add_detected_item in cents, for the labels of the model
QbDefaultPrices == [chair |-> 14999, table |-> 29999, lamp |-> 7999, rug |-> 19999]

\* the labels add_detected_item refuses
People == {"person", "people", "human", "man", "woman", "child", "baby"}

\* f"{price:.2f}" and f"{int(price):03d}" of a price in cents
Digits2(n) == IF n < 10 THEN "0" \o ToString(n) ELSE ToString(n)
Digits3(n) == IF n < 100 THEN "0" \o Digits2(n) ELSE ToString(n)
Money(price) == ToString(price \div 100) \o "." \o Digits2(price % 100)

\* what the ledger does with an item: it has none of that name and price and
\* creates one, it has one and raises its quantity, or the request fails
QbOutcomes == {"created", "incremented", "error"}

\* add_detected_item(detection_data), the ledger answering with `outcome`
AddDetectedItem(detection_data, outcome) ==
    LET base_name == Lower(detection_data.classLabel)
        price == IF base_name \in DOMAIN QbDefaultPrices
                 THEN QbDefaultPrices[base_name] ELSE detection_data.price
        item_name == base_name \o " ($" \o Money(price) \o ")"
    IN IF base_name \in People
       THEN [success |-> FALSE, error |-> "Cannot add people to inventory",
             detected_type |-> base_name]
       ELSE IF outcome = "incremented"
       THEN [success |-> TRUE, item_id |-> "qb_" \o base_name, name |-> item_name,
             action |-> "incremented", price |-> price]
       ELSE IF outcome = "created"
       THEN [success |-> TRUE, item_id |-> "qb_" \o base_name, name |-> item_name,
             action |-> "created", price |-> price,
             sku |-> base_name \o "-" \o Digits3(price \div 100)]
       ELSE [success |-> FALSE, error |-> "error"]

\* add_receipt_item(item): the line item as detection_data of full confidence
AddReceiptItem(item, outcome) ==
    AddDetectedItem([classLabel |-> Get(item, "name", None),
                     price |-> ParsePrice(Get(item, "price", "10.00")),
                     quantity |-> Get(item, "quantity", 1),
                     confidence |-> 100],
                    outcome)

\* neo4j_item_data as upload_receipt builds it from qb_result, at clock value t
ReceiptItemData(item, qb_result, t) ==
    [item_id |-> Get(qb_result, "item_id", Get(qb_result, "id", "unknown")),
     name |-> Get(qb_result, "name", "Unknown Item"),
     sku |-> Get(qb_result, "sku", "N/A"),
     price |-> Get(qb_result, "price", 0),
     quantity |-> Get(qb_result, "quantity", 1),
     add_date |-> DateOf(t),
     purchase_date |-> Get(item, "purchase_date", DateOf(t)),
     room |-> "unknown"]

\* the keys that create_item reads with item_data[...] for each query
RoomQueryKeys == {"room", "room_embedding"}
ItemQueryKeys ==
    {"item_id", "name", "sku", "price", "quantity", "confidence", "embedding",
     "room", "add_date", "purchase_date"}

\* create_item(item_data) from entry to exit on the store st, at clock
\* value t, the store accepting both queries: it returns early without a
\* driver, and a key that item_data lacks raises KeyError where it is read
CreateItemCall(st, d, t) ==
    IF ~driver THEN [st EXCEPT !.raised = FALSE]
    ELSE IF ~(RoomQueryKeys \subseteq DOMAIN d) THEN [st EXCEPT !.raised = TRUE]
    ELSE LET rs == RoomQuery(st.rooms, d.room, d.room_embedding) IN
         IF ~(ItemQueryKeys \subseteq DOMAIN d)
         THEN [rooms |-> rs, items |-> st.items, rels |-> st.rels, raised |-> TRUE]
         ELSE LET res == ItemQuery(st.items, rs, st.rels, ItemParams(d), t)
              IN [rooms |-> rs, items |-> res.items, rels |-> res.rels,
                  raised |-> FALSE]

\* the loop of upload_receipt over receipt_data["items"] from position k
\* on: an exception of create_item is logged and the loop goes on
RECURSIVE StoreLineItemsFrom(_, _, _, _, _)
StoreLineItemsFrom(st, items, outcomes, t, k) ==
    IF k > Len(items) THEN st
    ELSE StoreLineItemsFrom(
             [CreateItemCall([st EXCEPT !.raised = FALSE],
                             ReceiptItemData(items[k],
                                             AddReceiptItem(items[k], outcomes[k]), t),
                             t)
                 EXCEPT !.raised = FALSE],
             items, outcomes, t, k + 1)

\* the store as the record the loop works on
Store == [rooms |-> roomNodes, items |-> itemNodes, rels |-> rels, raised |-> FALSE]

\* the request answers: upload_file's except clause or a return
Answer(p, status, next) ==
    job' = [job EXCEPT ![p].status = status, ![p].pc = next]

\* the clock advances while requests run
FileTick ==
    /\ now < MaxTime
    /\ \E p \in Requests : job[p].pc \notin {"idle", "done"}
    /\ now' = now + 1
    /\ UNCHANGED <<driver, mergeVars, storeVars, reqVars, calls, histVars, search, fnCall, webVars>>

\* upload_file: file.save(temp_path)
SaveUpload(p) ==
    /\ job[p].pc = "idle"
    /\ job' = [job EXCEPT ![p].pc = "open", ![p].route = "upload"]
    /\ files' = [files EXCEPT ![TempUpload] = UploadedImage(p)]
    /\ UNCHANGED <<driver, mergeVars, now, storeVars, reqVars, calls, histVars, search, fnCall, resp>>

\* upload_file: Image.open(temp_path) and fix_image_rotation
RotateOpen(p) ==
    /\ job[p].pc = "open"
    /\ IF files[TempUpload] = NoFile THEN Answer(p, 400, "done")
       ELSE job' = [job EXCEPT ![p].pc = "save", ![p].img = files[TempUpload]]
    /\ UNCHANGED <<driver, mergeVars, now, storeVars, reqVars, calls, histVars, search, fnCall,
                   files, resp>>

\* upload_file: img.save(temp_path) writes the image that was opened
RotateSave(p) ==
    /\ job[p].pc = "save"
    /\ files' = [files EXCEPT ![TempUpload] = job[p].img]
    /\ job' = [job EXCEPT ![p].pc = "analyze"]
    /\ UNCHANGED <<driver, mergeVars, now, storeVars, reqVars, calls, histVars, search, fnCall, resp>>

\* upload_file: analyzer.analyze_image(temp_path)
Analyze(p) ==
    /\ job[p].pc = "analyze"
    /\ IF files[TempUpload] = NoFile THEN Answer(p, 400, "done")
       ELSE job' = [job EXCEPT ![p].pc = "classify",
                               ![p].detections = AnalyzeImage(files[TempUpload]),
                               ![p].detFrom = files[TempUpload]]
    /\ UNCHANGED <<driver, mergeVars, now, storeVars, reqVars, calls, histVars, search, fnCall,
                   files, resp>>

\* upload_file: room_classifier.classify_room(temp_path), which answers
\* "unknown" when it cannot read the file, when its provider raises and
\* when the provider names no valid room
Classify(p) ==
    /\ job[p].pc = "classify"
    /\ IF files[TempUpload] = NoFile
       THEN job' = [job EXCEPT ![p].pc = "embed_room", ![p].room = "unknown"]
       ELSE \E room \in {Shows(files[TempUpload]).room, "unknown"} :
               job' = [job EXCEPT ![p].pc = "embed_room",
                                  ![p].room = room,
                                  ![p].roomFrom = files[TempUpload]]
    /\ UNCHANGED <<driver, mergeVars, now, storeVars, reqVars, calls, histVars, search, fnCall,
                   files, resp>>

\* upload_file: embeddings_client.get_image_embedding(temp_path)
EmbedRoom(p) ==
    /\ job[p].pc = "embed_room"
    /\ IF files[TempUpload] = NoFile THEN Answer(p, 400, "done")
       ELSE job' = [job EXCEPT ![p].pc = "embed_objects",
                               ![p].room_embedding = Shows(files[TempUpload]).embedding,
                               ![p].embFrom = files[TempUpload]]
    /\ UNCHANGED <<driver, mergeVars, now, storeVars, reqVars, calls, histVars, search, fnCall,
                   files, resp>>

\* upload_file: analyzer.get_object_embeddings(temp_path, prediction_result);
\* the loop over its result starts, or ends at once when it is empty
EmbedObjects(p) ==
    /\ job[p].pc = "embed_objects"
    /\ IF files[TempUpload] = NoFile THEN Answer(p, 400, "done")
       ELSE \E f \in EmbeddingFailures(Len(job[p].detections)) :
               LET objects == GetObjectEmbeddings(job[p].detections, files[TempUpload],
                                                  f.crop_raises, f.embed_raises)
               IN job' = [job EXCEPT ![p].pc = IF objects = <<>> THEN "render" ELSE "build",
                                     ![p].objects = objects,
                                     ![p].todo = objects,
                                     ![p].objFrom = files[TempUpload]]
    /\ UNCHANGED <<driver, mergeVars, now, storeVars, reqVars, calls, histVars, search, fnCall,
                   files, resp>>

\* create_item has returned to the loop of upload_file: the next object, or
\* the end of the loop
NextObject(p) ==
    job' = [job EXCEPT ![p].todo = Tail(job[p].todo),
                       ![p].pc = IF Len(job[p].todo) > 1 THEN "build" ELSE "render"]

\* upload_file: item_data is built for the object the loop takes, the clock
\* read for the item_id and again for the add_date, before create_item is
\* called
StoreBuild(p) ==
    /\ job[p].pc = "build"
    /\ \E t_date \in now..MaxTime :
          job' = [job EXCEPT ![p].pc = "store",
                             ![p].d = UploadItemData(Head(job[p].todo), job[p].room,
                                                     job[p].room_embedding, now, t_date)]
    /\ UNCHANGED <<driver, mergeVars, now, storeVars, reqVars, calls, histVars, search, fnCall,
                   files, resp>>

\* upload_file: create_item is called with the item_data in hand: without a
\* driver it returns, with one its room query commits
StoreRoom(p) ==
    /\ job[p].pc = "store"
    /\ IF ~driver THEN NextObject(p) /\ UNCHANGED roomNodes
       ELSE /\ roomNodes' = RoomQuery(roomNodes, job[p].d.room, job[p].d.room_embedding)
            /\ job' = [job EXCEPT ![p].pc = "store_item"]
    /\ UNCHANGED <<driver, mergeVars, now, itemNodes, rels, reqVars, calls, histVars, search,
                   fnCall, files, resp>>

\* upload_file: the item query of the create_item call in hand commits
StoreItem(p) ==
    /\ job[p].pc = "store_item"
    /\ LET res == ItemQuery(itemNodes, roomNodes, rels, ItemParams(job[p].d), now)
       IN /\ itemNodes' = res.items
          /\ rels' = res.rels
    /\ NextObject(p)
    /\ UNCHANGED <<driver, mergeVars, now, roomNodes, reqVars, calls, histVars, search, fnCall,
                   files, resp>>

\* upload_file: get_base64_plot and get_cropped_objects open temp_path
Render(p) ==
    /\ job[p].pc = "render"
    /\ IF files[TempUpload] = NoFile THEN Answer(p, 400, "done")
       ELSE job' = [job EXCEPT ![p].pc = "unlink"]
    /\ UNCHANGED <<driver, mergeVars, now, storeVars, reqVars, calls, histVars, search, fnCall,
                   files, resp>>

\* upload_file: os.unlink(temp_path) and the rendered answer
Unlink(p) ==
    /\ job[p].pc = "unlink"
    /\ IF files[TempUpload] = NoFile
       THEN Answer(p, 400, "done") /\ UNCHANGED files
       ELSE /\ files' = [files EXCEPT ![TempUpload] = NoFile]
            /\ Answer(p, 200, "done")
    /\ UNCHANGED <<driver, mergeVars, now, storeVars, reqVars, calls, histVars, search, fnCall, resp>>

\* upload_file: EyePop, the embedding provider or a query of the graph
\* store raises; the except clause answers 400 and what was committed stays
ServiceRaises(p) ==
    /\ \/ job[p].pc \in {"analyze", "embed_room", "store_item"}
       \/ job[p].pc = "store" /\ driver
    /\ Answer(p, 400, "done")
    /\ UNCHANGED <<driver, mergeVars, now, storeVars, reqVars, calls, histVars, search, fnCall,
                   files, resp>>

\* upload_receipt: file.save(temp_path)
SaveReceipt(p) ==
    /\ job[p].pc = "idle"
    /\ job' = [job EXCEPT ![p].pc = "process", ![p].route = "receipt"]
    /\ files' = [files EXCEPT ![TempReceipt] = UploadedReceipt(p)]
    /\ UNCHANGED <<driver, mergeVars, now, storeVars, reqVars, calls, histVars, search, fnCall, resp>>

\* upload_receipt: process_receipt(temp_path) and extract_receipt_data
Process(p) ==
    /\ job[p].pc = "process"
    /\ IF files[TempReceipt] = NoFile THEN Answer(p, 400, "finally")
       ELSE job' = [job EXCEPT ![p].pc = "items",
                               ![p].items = LineItems(files[TempReceipt])]
    /\ UNCHANGED <<driver, mergeVars, now, storeVars, reqVars, calls, histVars, search, fnCall,
                   files, resp>>

\* upload_receipt: Unstructured.io or the LLM raises, or QuickBooksInventory()
\* cannot refresh its token; the except clause answers 400
ReceiptServiceRaises(p) ==
    /\ job[p].pc \in {"process", "items"}
    /\ Answer(p, 400, "finally")
    /\ UNCHANGED <<driver, mergeVars, now, storeVars, reqVars, calls, histVars, search, fnCall,
                   files, resp>>

\* upload_receipt: the loop over the line items, add_receipt_item and
\* create_item for each
ReceiptItems(p) ==
    /\ job[p].pc = "items"
    /\ \E outcomes \in [DOMAIN job[p].items -> QbOutcomes] :
          LET st == StoreLineItemsFrom(Store, job[p].items, outcomes, now, 1)
          IN /\ roomNodes' = st.rooms
             /\ itemNodes' = st.items
             /\ rels' = st.rels
             /\ job' = [job EXCEPT
                          ![p].pc = "encode",
                          ![p].results =
                              [k \in DOMAIN outcomes |->
                                  AddReceiptItem(job[p].items[k], outcomes[k])]]
    /\ UNCHANGED <<driver, mergeVars, now, reqVars, calls, histVars, search, fnCall, files, resp>>

\* upload_receipt: open(temp_path) for the Base64 image and the rendered answer
Encode(p) ==
    /\ job[p].pc = "encode"
    /\ Answer(p, IF files[TempReceipt] = NoFile THEN 400 ELSE 200, "finally")
    /\ UNCHANGED <<driver, mergeVars, now, storeVars, reqVars, calls, histVars, search, fnCall,
                   files, resp>>

\* upload_receipt, the finally clause: os.path.exists(temp_path)
FinallyExists(p) ==
    /\ job[p].pc = "finally"
    /\ job' = [job EXCEPT ![p].pc = IF files[TempReceipt] = NoFile THEN "done"
                                    ELSE "remove"]
    /\ UNCHANGED <<driver, mergeVars, now, storeVars, reqVars, calls, histVars, search, fnCall,
                   files, resp>>

\* upload_receipt, the finally clause: os.remove(temp_path); when the file
\* has gone since the test, FileNotFoundError leaves the view and the
\* request is answered 500
FinallyRemove(p) ==
    /\ job[p].pc = "remove"
    /\ IF files[TempReceipt] = NoFile
       THEN Answer(p, 500, "done") /\ UNCHANGED files
       ELSE /\ files' = [files EXCEPT ![TempReceipt] = NoFile]
            /\ job' = [job EXCEPT ![p].pc = "done"]
    /\ UNCHANGED <<driver, mergeVars, now, storeVars, reqVars, calls, histVars, search, fnCall, resp>>

FileNext ==
    \/ FileTick
    \/ \E p \in Requests :
        \/ SaveUpload(p)
        \/ RotateOpen(p)
        \/ RotateSave(p)
        \/ Analyze(p)
        \/ Classify(p)
        \/ EmbedRoom(p)
        \/ EmbedObjects(p)
        \/ StoreBuild(p)
        \/ StoreRoom(p)
        \/ StoreItem(p)
        \/ Render(p)
        \/ Unlink(p)
        \/ ServiceRaises(p)
        \/ SaveReceipt(p)
        \/ Process(p)
        \/ ReceiptServiceRaises(p)
        \/ ReceiptItems(p)
        \/ Encode(p)
        \/ FinallyExists(p)
        \/ FinallyRemove(p)

FileSpec == Init /\ [][FileNext]_vars

-----------------------------------------------------------------------------
(* Properties of the graph store under Spec *)

\* the quantity stored for an item_id, 0 when the store has no such item
StoredQuantity(its, item_id) ==
    IF ItemMatches(its, item_id) = {} THEN 0
    ELSE its[CHOOSE i \in ItemMatches(its, item_id) : TRUE].quantity

\* C1: the quantity stored for an item_id is the sum of the quantities of
\* all the upserts committed on that item_id
QuantityAccumulates ==
    \A item_id \in DOMAIN sumQty :
        \A i \in ItemMatches(itemNodes, item_id) :
            itemNodes[i].quantity = sumQty[item_id]

\* C2: when a request commits its item query after another request has
\* committed an upsert of the same item_id in the middle of its create_item
\* call, the stored quantity grows by exactly the quantity it supplied: the
\* final quantity is the prior quantity plus both deltas
NoLostUpdate ==
    [][\A p \in Requests :
          (p \in raced /\ pc[p] = "item" /\ pc'[p] \in {"done", "build", "finish"})
          => StoredQuantity(itemNodes', cur[p].item_id)
               = StoredQuantity(itemNodes, cur[p].item_id) + cur[p].quantity]_vars

\* C3: the three writes of a call are one transaction: the store never shows
\* a Room node that no LocatedIn relationship reaches
UpsertAtomic ==
    \A r \in DOMAIN roomNodes : \E k \in DOMAIN rels : rels[k].room = r

\* C4: a Room keeps the embedding of the call that created it
RoomEmbeddingSticky ==
    \A r \in DOMAIN roomNodes :
        roomNodes[r].embedding = firstEmb[roomNodes[r].name]

\* C5: an upload that has ended has taken every object of its list, whether
\* or not a graph write failed on the way, and has not ended in the error answer
PartialIngestion ==
    \A p \in Requests :
        (kind[p] = "upload" /\ pc[p] \in {"done", "failed"})
        => (objs[p] = <<>> /\ pc[p] = "done")

\* C6: name, sku, price, description, embedding and confidence of an item are
\* those of the last upsert committed on its item_id
LastWriteWins ==
    \A item_id \in DOMAIN lastData :
        \A i \in ItemMatches(itemNodes, item_id) :
            LET d == lastData[item_id] IN
            /\ itemNodes[i].name = d.name
            /\ itemNodes[i].sku = d.sku
            /\ itemNodes[i].price = d.price
            /\ itemNodes[i].description = GetDescription(d)
            /\ itemNodes[i].embedding = d.embedding
            /\ itemNodes[i].confidence = d.confidence

\* C6 witness: an item first stored as a chair (quantity 1) was upserted
\* again as a table (quantity 0) and now reads as a table
LastWriteWinsWitness ==
    \E item_id \in DOMAIN lastData :
        /\ lastData[item_id].name = "table"
        /\ lastData[item_id].quantity = 0
        /\ sumQty[item_id] >= 1
        /\ \E i \in ItemMatches(itemNodes, item_id) : itemNodes[i].name = "table"

\* C7: at most one InventoryItem node per item_id and one Room node per
\* name, also when concurrent requests upsert the same key
UniqueKeys ==
    /\ \A i, j \in DOMAIN itemNodes :
          itemNodes[i].item_id = itemNodes[j].item_id => i = j
    /\ \A i, j \in DOMAIN roomNodes :
          roomNodes[i].name = roomNodes[j].name => i = j

\* C8: every LocatedIn relationship carries `since`, the time of the first
\* upsert of its (item, room) pair
SinceIsFirstObservation ==
    \A k \in DOMAIN rels :
        /\ "since" \in DOMAIN rels[k].props
        /\ rels[k].props.since
             = firstSeen[<<itemNodes[rels[k].item].item_id,
                           roomNodes[rels[k].room].name>>]

\* the relationships that leave the items of an item_id
RelsOf(its, rl, item_id) ==
    {k \in DOMAIN rl : its[rl[k].item].item_id = item_id}

\* C9: no step removes a LocatedIn relationship, and an item upserted in k
\* distinct rooms has exactly k relationships, one to each of those rooms
EdgesAccumulate ==
    /\ [](\A item_id \in DOMAIN seenRooms :
             /\ Cardinality(RelsOf(itemNodes, rels, item_id))
                  = Cardinality(seenRooms[item_id])
             /\ {roomNodes[rels[k].room].name :
                    k \in RelsOf(itemNodes, rels, item_id)} = seenRooms[item_id])
    /\ [][\A k \in DOMAIN rels :
             \E k2 \in DOMAIN rels' :
                 rels'[k2].item = rels[k].item /\ rels'[k2].room = rels[k].room]_vars

\* C9 witness: an item has been upserted in two rooms
EdgesAccumulateWitness ==
    \E item_id \in DOMAIN seenRooms :
        /\ Cardinality(seenRooms[item_id]) = 2
        /\ Cardinality(RelsOf(itemNodes, rels, item_id)) = 2

-----------------------------------------------------------------------------
(* Properties of search under SearchSpec *)

\* C10: every entry a search returns has a similarity strictly above 0.2,
\* and a search none of whose candidates is above 0.2 returns the empty list
ThresholdLaw ==
    /\ \A k \in DOMAIN search.out : Less(Threshold, search.out[k].similarity)
    /\ (\A k \in DOMAIN search.rows : LessEq(search.rows[k].similarity, Threshold))
       => search.out = <<>>

\* C10 witness: a search had a candidate scoring exactly 0.2 within its first
\* `limit` sorted rows, dropped it and returned the others
ThresholdLawWitness ==
    /\ \E k \in DOMAIN search.rows : search.rows[k].similarity = Threshold
    /\ Len(search.rows) = search.limit
    /\ Len(search.out) >= 1
    /\ Len(search.out) < search.limit

\* the row that a search read at position k of the store's answer
SearchRow(k) == Row(search.items, search.rooms, search.rels[search.order[k]])

\* the scored rows of the search in hand, had the store answered in order o
RowsInOrder(o) ==
    Scored(search.query,
           [i \in DOMAIN o |-> Row(search.items, search.rooms, search.rels[o[i]])])

\* item.get("similarity", 0) > 0.2 applied to every scored row
AllAboveThreshold(scored) == Filter(scored, 1)

\* C11: a search returns exactly the first `limit` entries of the list got by
\* discarding every candidate of similarity at most 0.2 and sorting the rest
\* by similarity descending; the sort / cut / filter order of the code gives
\* that same list, which is in descending order and at most `limit` long
CutThenFilterIsFilterThenCut ==
    search # NoSearch =>
        /\ search.out = Take(SortDesc(AllAboveThreshold(search.rows)), search.limit)
        /\ Len(search.out) <= search.limit
        /\ \A k \in 1..(Len(search.out) - 1) :
               LessEq(search.out[k + 1].similarity, search.out[k].similarity)

\* C11 witness: a search over three candidates that the store did not return
\* in descending order, one of them at most 0.2, with a limit of two and a
\* non-empty answer
CutThenFilterWitness ==
    /\ Len(search.rows) = 3
    /\ search.limit = 2
    /\ \E k \in DOMAIN search.rows : LessEq(search.rows[k].similarity, Threshold)
    /\ Less(search.rows[1].similarity, search.rows[3].similarity)
    /\ Len(search.out) >= 1

\* C12: a search scores every item that the catalog holds with an embedding
\* that is not null when the query of the search reads it, once for each room
\* the item is linked to and whether or not that room has an embedding: no
\* such item is left out of the candidates
CandidatesComplete ==
    search # NoSearch =>
        \A i \in DOMAIN search.items :
            search.items[i].embedding # NoVec =>
                /\ \E r \in DOMAIN search.rels : search.rels[r].item = i
                /\ \A r \in DOMAIN search.rels :
                       search.rels[r].item = i =>
                           \E k \in DOMAIN search.order :
                               /\ search.order[k] = r
                               /\ search.rows[k].similarity
                                     = Similarity(search.query, SearchRow(k))

\* C12 witness: a search over a catalog with an item that has an embedding
\* and is linked to two rooms, one of them without an embedding
CandidatesCompleteWitness ==
    /\ search # NoSearch
    /\ \E r1, r2 \in DOMAIN search.rels :
           /\ r1 # r2
           /\ search.rels[r1].item = search.rels[r2].item
           /\ search.items[search.rels[r1].item].embedding # NoVec
           /\ search.rooms[search.rels[r1].room].embedding = NoVec
           /\ \E k \in DOMAIN search.order : search.order[k] = r1

\* C13: the ranked output of a search over candidates of pairwise different
\* item_id, the entry that survives the cut among tied ones included, is the
\* same whatever the order in which the store returns the rows
TieOrderIndependent ==
    (/\ search # NoSearch
     /\ \A j, k \in DOMAIN search.order :
            search.rels[search.order[j]].item = search.rels[search.order[k]].item
            => j = k)
    => \A o \in RowOrders(search.items, search.rels) :
           SimilarItems(RowsInOrder(o), search.limit) = search.out

\* C14: the similarity of every candidate is 0.7 times its item similarity
\* plus 0.3 times its room similarity, the room similarity being 0 when the
\* room has no embedding; 0.9 and 0.5 give 0.78
BlendLaw ==
    /\ Blend(Frac(9, 10), Frac(5, 10)) = Frac(78, 100)
    /\ \A k \in DOMAIN search.rows :
           LET row == SearchRow(k)
               is == IF row.embedding = NoVec THEN Frac(0, 1)
                     ELSE CosineSimilarity(search.query, row.embedding)
               rs == IF row.room_embedding = NoVec THEN Frac(0, 1)
                     ELSE CosineSimilarity(search.query, row.room_embedding)
               s == search.rows[k].similarity
           IN /\ 10 * s.num * is.den * rs.den
                   = s.den * (7 * is.num * rs.den + 3 * rs.num * is.den)
              /\ row.room_embedding = NoVec
                   => 10 * s.num * is.den = 7 * is.num * s.den

\* C14 witness: a search scored a candidate whose room has no embedding and
\* a candidate whose item and room similarities are positive and differ
BlendLawWitness ==
    /\ \E k \in DOMAIN search.rows :
           /\ SearchRow(k).room_embedding = NoVec
           /\ Less(Frac(0, 1), search.rows[k].similarity)
    /\ \E k \in DOMAIN search.rows :
           /\ SearchRow(k).room_embedding # NoVec
           /\ LET is == CosineSimilarity(search.query, SearchRow(k).embedding)
                  rs == CosineSimilarity(search.query, SearchRow(k).room_embedding)
              IN Less(Frac(0, 1), is) /\ Less(Frac(0, 1), rs) /\ is # rs

\* C28: no item is in the output of search_similar_items more than once,
\* whatever the number of rooms it is linked to
SearchItemOnce ==
    search # NoSearch =>
        \A j, k \in DOMAIN search.out : search.out[j].name = search.out[k].name => j = k

-----------------------------------------------------------------------------
(* Properties of compute_iou, apply_nms and cosine_similarity under FnSpec *)

\* the positions, in the input of the apply_nms call in hand, of the
\* detections it kept
KeptSet == {fnCall.kept[k] : k \in DOMAIN fnCall.kept}

\* detections i and j of the call in hand have the same class and an IoU at
\* or above the threshold of the call
Overlapping(i, j) ==
    /\ fnCall.objects[i].classLabel = fnCall.objects[j].classLabel
    /\ LessEq(fnCall.iou_threshold, ComputeIou(fnCall.objects[i], fnCall.objects[j]))

\* C15 as stated: the output of apply_nms has no two detections of the same
\* class with an IoU at or above the threshold, and of two same-class input
\* detections that overlap at or above the threshold only the one of higher
\* confidence is kept: the one of lower confidence is not in the output
NmsLowerNeverKept ==
    fnCall.fn = "apply_nms" =>
        /\ \A a, b \in DOMAIN fnCall.kept :
               a # b => ~Overlapping(fnCall.kept[a], fnCall.kept[b])
        /\ \A i, j \in DOMAIN fnCall.objects :
               (/\ Overlapping(i, j)
                /\ fnCall.objects[i].confidence > fnCall.objects[j].confidence)
               => j \notin KeptSet

\* C15 amended: the output of apply_nms has no two detections of the same
\* class with an IoU at or above the threshold; of two same-class input
\* detections that overlap at or above the threshold the two are never both
\* kept, and the one of lower confidence is kept only when the one of higher
\* confidence was suppressed by a kept detection of its class with at least
\* its confidence; a list of just those two gives the higher one alone
NmsNoOverlapKept ==
    fnCall.fn = "apply_nms" =>
        /\ \A a, b \in DOMAIN fnCall.kept :
               a # b => ~Overlapping(fnCall.kept[a], fnCall.kept[b])
        /\ \A i, j \in DOMAIN fnCall.objects :
               (/\ Overlapping(i, j)
                /\ fnCall.objects[i].confidence > fnCall.objects[j].confidence
                /\ j \in KeptSet)
               => /\ i \notin KeptSet
                  /\ \E m \in KeptSet :
                        /\ Overlapping(m, i)
                        /\ fnCall.objects[m].confidence >= fnCall.objects[i].confidence
        /\ \A i, j \in DOMAIN fnCall.objects :
               (/\ Len(fnCall.objects) = 2
                /\ Overlapping(i, j)
                /\ fnCall.objects[i].confidence > fnCall.objects[j].confidence)
               => fnCall.result = <<fnCall.objects[i]>>

\* C15 witness: apply_nms with threshold 0.5 on a chair of confidence 60
\* followed by a chair of confidence 90, their IoU 0.8, kept the second only
NmsNoOverlapWitness ==
    /\ fnCall.fn = "apply_nms"
    /\ fnCall.iou_threshold = Frac(1, 2)
    /\ Len(fnCall.objects) = 2
    /\ fnCall.objects[1].classLabel = "chair"
    /\ fnCall.objects[2].classLabel = "chair"
    /\ fnCall.objects[1].confidence = 60
    /\ fnCall.objects[2].confidence = 90
    /\ ComputeIou(fnCall.objects[1], fnCall.objects[2]) = Frac(4, 5)
    /\ fnCall.kept = <<2>>

\* C16: apply_nms never drops a detection because of one of another class:
\* a detection whose class no other detection of the input has is kept, so
\* an input of pairwise different classes comes back whole
NmsClassesApart ==
    fnCall.fn = "apply_nms" =>
        /\ \A j \in DOMAIN fnCall.objects :
               (\A i \in DOMAIN fnCall.objects :
                    i # j => fnCall.objects[i].classLabel # fnCall.objects[j].classLabel)
               => j \in KeptSet
        /\ (\A i, j \in DOMAIN fnCall.objects :
                i # j => fnCall.objects[i].classLabel # fnCall.objects[j].classLabel)
           => /\ Len(fnCall.result) = Len(fnCall.objects)
              /\ KeptSet = DOMAIN fnCall.objects

\* C16 witness: apply_nms on a chair and a table in the same box kept both
NmsClassesApartWitness ==
    /\ fnCall.fn = "apply_nms"
    /\ Len(fnCall.objects) = 2
    /\ fnCall.objects[1].classLabel # fnCall.objects[2].classLabel
    /\ ComputeIou(fnCall.objects[1], fnCall.objects[2]) = Frac(1, 1)
    /\ Len(fnCall.result) = 2

\* detection i is considered before detection j: higher confidence first,
\* equal confidences in input order
ConsideredBefore(i, j) ==
    \/ fnCall.objects[i].confidence > fnCall.objects[j].confidence
    \/ /\ fnCall.objects[i].confidence = fnCall.objects[j].confidence
       /\ i < j

\* C17 as stated: apply_nms keeps detections in the order of a stable sort
\* by confidence descending, and of two same-class detections of equal
\* confidence that overlap at or above the threshold the earlier one is the
\* one kept: the later one is not in the output
NmsLaterTieNeverKept ==
    fnCall.fn = "apply_nms" =>
        /\ \A a, b \in DOMAIN fnCall.kept :
               a < b => ConsideredBefore(fnCall.kept[a], fnCall.kept[b])
        /\ \A i, j \in DOMAIN fnCall.objects :
               (/\ i < j
                /\ Overlapping(i, j)
                /\ fnCall.objects[i].confidence = fnCall.objects[j].confidence)
               => j \notin KeptSet

\* C17 amended: apply_nms keeps detections in the order of a stable sort by
\* confidence descending (equal confidences in input order); of two
\* same-class detections of equal confidence that overlap at or above the
\* threshold the two are never both kept, and the later one is kept only
\* when the earlier one was suppressed by a kept detection considered before
\* it; a list of just those two gives the earlier one alone
NmsStableOrder ==
    fnCall.fn = "apply_nms" =>
        /\ \A a, b \in DOMAIN fnCall.kept :
               a < b => ConsideredBefore(fnCall.kept[a], fnCall.kept[b])
        /\ \A i, j \in DOMAIN fnCall.objects :
               (/\ i < j
                /\ Overlapping(i, j)
                /\ fnCall.objects[i].confidence = fnCall.objects[j].confidence
                /\ j \in KeptSet)
               => /\ i \notin KeptSet
                  /\ \E m \in KeptSet : Overlapping(m, i) /\ ConsideredBefore(m, i)
        /\ \A i, j \in DOMAIN fnCall.objects :
               (/\ Len(fnCall.objects) = 2
                /\ i < j
                /\ Overlapping(i, j)
                /\ fnCall.objects[i].confidence = fnCall.objects[j].confidence)
               => fnCall.kept = <<i>>

\* C17 witness: apply_nms on two different, overlapping chairs of equal
\* confidence kept the first one only
NmsStableOrderWitness ==
    /\ fnCall.fn = "apply_nms"
    /\ Len(fnCall.objects) = 2
    /\ fnCall.objects[1] # fnCall.objects[2]
    /\ fnCall.objects[1].confidence = fnCall.objects[2].confidence
    /\ Overlapping(1, 2)
    /\ fnCall.kept = <<1>>

\* C18: every detection apply_nms returns is one of its input, unchanged,
\* and none is returned twice; the empty list gives the empty list and a
\* list of one detection gives that list
NmsSubCollection ==
    fnCall.fn = "apply_nms" =>
        /\ \A k \in DOMAIN fnCall.kept :
               /\ fnCall.kept[k] \in DOMAIN fnCall.objects
               /\ fnCall.result[k] = fnCall.objects[fnCall.kept[k]]
        /\ Len(fnCall.result) = Len(fnCall.kept)
        /\ \A a, b \in DOMAIN fnCall.kept : fnCall.kept[a] = fnCall.kept[b] => a = b
        /\ fnCall.objects = <<>> => fnCall.result = <<>>
        /\ Len(fnCall.objects) = 1 => fnCall.result = fnCall.objects

\* C18 witness: apply_nms on three detections, the first and the last of
\* them equal, dropped one of the three
NmsSubCollectionWitness ==
    /\ fnCall.fn = "apply_nms"
    /\ Len(fnCall.objects) = 3
    /\ fnCall.objects[1] = fnCall.objects[3]
    /\ Len(fnCall.result) = 2

\* two boxes share no point of positive area
Disjoint(box1, box2) ==
    \/ box1.x + box1.width <= box2.x
    \/ box2.x + box2.width <= box1.x
    \/ box1.y + box1.height <= box2.y
    \/ box2.y + box2.height <= box1.y

\* the same on boxes of float coordinates, the edges being the floats
\* that compute_iou adds up
FloatDisjoint(box1, box2) ==
    \/ ~FloatLess(box2.x, FloatAdd(box1.x, box1.width))
    \/ ~FloatLess(box1.x, FloatAdd(box2.x, box2.width))
    \/ ~FloatLess(box2.y, FloatAdd(box1.y, box1.height))
    \/ ~FloatLess(box1.y, FloatAdd(box2.y, box2.height))

\* a box of float coordinates has no area
FloatNoArea(box) == box.width = FloatZero \/ box.height = FloatZero

\* C19: compute_iou is symmetric, gives 1 for a box of positive area against
\* itself, 0 for two boxes that do not overlap, and 0 when the union of the
\* two boxes is 0, on boxes of whole pixels and on boxes of float coordinates
IouLaws ==
    /\ (fnCall.fn = "compute_iou" /\ fnCall.coords = "pixel") =>
        /\ fnCall.result = ComputeIou(fnCall.box2, fnCall.box1)
        /\ (/\ fnCall.box1 = fnCall.box2
            /\ fnCall.box1.width * fnCall.box1.height > 0)
           => fnCall.result = Frac(1, 1)
        /\ Disjoint(fnCall.box1, fnCall.box2) => fnCall.result = Frac(0, 1)
        /\ (/\ fnCall.box1.width * fnCall.box1.height = 0
            /\ fnCall.box2.width * fnCall.box2.height = 0)
           => fnCall.result = Frac(0, 1)
        /\ LessEq(Frac(0, 1), fnCall.result)
        /\ LessEq(fnCall.result, Frac(1, 1))
    /\ (fnCall.fn = "compute_iou" /\ fnCall.coords = "float") =>
        /\ fnCall.result = ComputeIouFloat(fnCall.box2, fnCall.box1)
        /\ (fnCall.box1 = fnCall.box2 /\ ~FloatNoArea(fnCall.box1))
           => fnCall.result = FloatOne
        /\ FloatDisjoint(fnCall.box1, fnCall.box2) => fnCall.result = FloatZero
        /\ (FloatNoArea(fnCall.box1) /\ FloatNoArea(fnCall.box2))
           => fnCall.result = FloatZero
        /\ ~FloatLess(fnCall.result, FloatZero)
        /\ ~FloatLess(FloatOne, fnCall.result)

\* C20: cosine_similarity returns 0 and does not raise when a vector has
\* norm 0 or is absent, and returns 1 for a non-zero vector against itself
CosineTotal ==
    fnCall.fn = "cosine_similarity" =>
        /\ (\/ fnCall.vec1 \in {NoVec, ZeroVec}
            \/ fnCall.vec2 \in {NoVec, ZeroVec})
           => (~fnCall.raised /\ fnCall.result = Frac(0, 1))
        /\ (/\ fnCall.vec1 = fnCall.vec2
            /\ fnCall.vec1 \notin {NoVec, ZeroVec})
           => (~fnCall.raised /\ fnCall.result = Frac(1, 1))

\* C29: every detection apply_nms drops has a kept detection of its class
\* with a confidence at least its own and an IoU with it at or above the
\* threshold; and the detection of a class that the sort puts first (the
\* highest confidence, the earliest of the input among equals) is kept
NmsDropJustified ==
    fnCall.fn = "apply_nms" =>
        /\ \A j \in DOMAIN fnCall.objects \ KeptSet :
              \E i \in KeptSet :
                 /\ i # j
                 /\ Overlapping(i, j)
                 /\ fnCall.objects[i].confidence >= fnCall.objects[j].confidence
        /\ \A j \in DOMAIN fnCall.objects :
              (\A i \in DOMAIN fnCall.objects \ {j} :
                   fnCall.objects[i].classLabel = fnCall.objects[j].classLabel
                   => ConsideredBefore(j, i))
              => j \in KeptSet

\* C29 witness: apply_nms on three detections of one class dropped one and
\* kept two, the one of highest confidence among them
NmsDropWitness ==
    /\ fnCall.fn = "apply_nms"
    /\ Len(fnCall.objects) = 3
    /\ Cardinality(KeptSet) = 2
    /\ \A i, j \in DOMAIN fnCall.objects :
          fnCall.objects[i].classLabel = fnCall.objects[j].classLabel
    /\ \E j \in KeptSet :
          \A i \in DOMAIN fnCall.objects \ {j} :
             fnCall.objects[i].confidence < fnCall.objects[j].confidence

\* the crop get_cropped_objects makes of a detection of the call in hand
CropOf(obj) ==
    <<fnCall.image, Max(0, obj.x), Max(0, obj.y),
      Min(ImageSize.width, obj.x + obj.width), Min(ImageSize.height, obj.y + obj.height)>>

\* C26: every entry get_object_embeddings returns carries the label and the
\* confidence of the detection whose crop it carries and whose crop was
\* embedded, also when the crop of an earlier detection failed
EmbeddingOfOwnCrop ==
    fnCall.fn = "get_object_embeddings" =>
        \A k \in DOMAIN fnCall.result :
            LET e == fnCall.result[k] IN
            \E j \in DOMAIN fnCall.objects :
                /\ fnCall.objects[j].classLabel = e.classLabel
                /\ fnCall.objects[j].confidence = e.confidence
                /\ CropOf(fnCall.objects[j]) = e.image_data
                /\ e.embedding = EmbedCrop(CropOf(fnCall.objects[j]))

-----------------------------------------------------------------------------
(* Properties of upload_file and upload_receipt under FileSpec *)

\* the loop of upload_receipt over the line items of request p has ended
LineItemsDone(p) ==
    job[p].route = "receipt" /\ job[p].pc \in {"encode", "finally", "done"}

\* C21: with the graph store reachable, after upload_receipt has upserted a
\* line item that the ledger gave an item_id, an item with that item_id is in
\* the store, linked to the room "unknown", with a quantity of at least the
\* quantity of the line item
ReceiptLineItemStored ==
    \A p \in Requests :
        (driver /\ LineItemsDone(p)) =>
            \A k \in DOMAIN job[p].results :
                job[p].results[k].success =>
                    \E i \in DOMAIN itemNodes :
                        /\ itemNodes[i].item_id = job[p].results[k].item_id
                        /\ itemNodes[i].quantity >= job[p].items[k].quantity
                        /\ \E r \in DOMAIN rels :
                               /\ rels[r].item = i
                               /\ roomNodes[rels[r].room].name = "unknown"

\* C22: under any interleaving of two image uploads, the detections, the
\* room type, the room embedding and the object embeddings of each request
\* come from the image that this request uploaded
RequestsIsolated ==
    \A p \in Requests :
        job[p].route = "upload" =>
            /\ job[p].detFrom \in {NoFile, UploadedImage(p)}
            /\ job[p].roomFrom \in {NoFile, UploadedImage(p)}
            /\ job[p].embFrom \in {NoFile, UploadedImage(p)}
            /\ job[p].objFrom \in {NoFile, UploadedImage(p)}

\* C30: once every request that came in has been answered, neither
\* temp_upload.jpg nor temp_receipt.jpg exists
NoTempFileLeft ==
    (/\ \A p \in Requests : job[p].pc \in {"idle", "done"}
     /\ \E p \in Requests : job[p].pc = "done")
    => (files[TempUpload] = NoFile /\ files[TempReceipt] = NoFile)

\* upload_file of request p has run its loop of create_item calls to the
\* end, and no other request has come in
StoredAlone(p) ==
    /\ driver
    /\ job[p].route = "upload"
    /\ job[p].pc \in {"render", "unlink"}
    /\ \A o \in Requests \ {p} : job[o].pc = "idle"

\* C25: for each detection an upload has stored, the item holds as embedding
\* the vector, and as description the description, that get_image_embedding
\* returned for the crop of the detection
UploadSplitsEmbedding ==
    \A p \in Requests :
        StoredAlone(p) =>
            \A k \in DOMAIN job[p].objects :
                \E i \in DOMAIN itemNodes :
                    /\ itemNodes[i].name = job[p].objects[k].classLabel
                    /\ itemNodes[i].embedding = job[p].objects[k].embedding[1]
                    /\ itemNodes[i].description = job[p].objects[k].embedding[2]

RECURSIVE SumQuantityFrom(_, _)
SumQuantityFrom(its, i) ==
    IF i > Len(its) THEN 0 ELSE its[i].quantity + SumQuantityFrom(its, i + 1)

\* C27: after one upload has stored its n detections, the quantities of the
\* items in the store sum to n
UploadCountsEveryDetection ==
    \A p \in Requests :
        StoredAlone(p) => SumQuantityFrom(itemNodes, 1) = Len(job[p].objects)

-----------------------------------------------------------------------------
(* Properties of the routes search and chat under QuerySpec. *)

\* C23: a request whose query is missing or empty is answered with a 4xx
\* status, on search and on chat, and no call to the embedding provider, the
\* graph store or the chat service was made for it.
EmptyQueryRejected ==
    (resp.route # "none" /\ Get(resp.body, "query", "") = "") =>
        /\ resp.status \in 400..499
        /\ resp.embedCalls = 0
        /\ resp.storeCalls = 0
        /\ resp.chatCalls = 0

\* the place of a room in the rooms of the context
RoomPos(room) == CHOOSE k \in DOMAIN resp.rooms : resp.rooms[k].room = room

\* the rank of the row of an item and a room in similar_items
Rank(name, room) ==
    CHOOSE i \in DOMAIN resp.items : resp.items[i].name = name /\ resp.items[i].room = room

\* the item lines of the context, in the order of the text
ItemLinesOfContext == SelectSeq(resp.context, LAMBDA l : l.kind = "item")

\* C24: the context of chat has one block per room of the ranked items, the
\* rooms in the order of their first item in the ranked list, each block
\* holding the items of its room in ranked order; every ranked item has
\* exactly one item line, with its own quantity, name and price, and the
\* lines follow the blocks: nothing is ranked anew and nothing is left out.
ChatContextGroupsByRoom ==
    (resp.route = "chat" /\ resp.chatCalls = 1) =>
        LET items == resp.items
            rooms == resp.rooms
            lines == ItemLinesOfContext
        IN /\ \A j, k \in DOMAIN rooms : rooms[j].room = rooms[k].room => j = k
           /\ \A k \in DOMAIN rooms :
                 /\ rooms[k].items # <<>>
                 /\ rooms[k].items = SelectSeq(items, LAMBDA i : i.room = rooms[k].room)
           /\ \A i \in DOMAIN items : \E k \in DOMAIN rooms : rooms[k].room = items[i].room
           /\ \A j, k \in DOMAIN rooms :
                 j < k => \E i \in DOMAIN items :
                             /\ items[i].room = rooms[j].room
                             /\ \A h \in DOMAIN items : items[h].room = rooms[k].room => i < h
           /\ SelectSeq(resp.context, LAMBDA l : l.kind = "room")
                 = [k \in DOMAIN rooms |-> Line("room", rooms[k].room, NoItem)]
           /\ Len(lines) = Len(items)
           /\ \A i \in DOMAIN items :
                 Cardinality({l \in DOMAIN lines :
                                 lines[l] = Line("item", items[i].room, items[i])}) = 1
           /\ \A a, b \in DOMAIN lines :
                 a < b => \/ RoomPos(lines[a].room) < RoomPos(lines[b].room)
                          \/ /\ lines[a].room = lines[b].room
                             /\ Rank(lines[a].name, lines[a].room)
                                  < Rank(lines[b].name, lines[b].room)

\* chat has answered from three ranked items, the first and the third of one
\* room and the second of another
ChatContextWitness ==
    /\ resp.route = "chat"
    /\ resp.chatCalls = 1
    /\ Len(resp.items) = 3
    /\ resp.items[1].room = resp.items[3].room
    /\ resp.items[1].room # resp.items[2].room
    /\ Len(resp.rooms) = 2
====
